---------------------------- MODULE Spec2Model ----------------------------
(***************************************************************************)
(* A model of grafana-reporter: the recording-rule backfill engine         *)
(* (src/report/recording_rule_backfill.py), the panel table rebuilder and  *)
(* report run (src/report/report.py) and the monolithic report run of      *)
(* src/report_api.py.                                                      *)
(*                                                                         *)
(* Conventions.                                                            *)
(*  - A Python str is a sequence of one-character strings, so the regular  *)
(*    expressions of the source are modelled character by character.       *)
(*  - A float is a non-negative rational <<num, den>> in lowest terms;     *)
(*    <<1, 0>> is inf and <<0, 0>> is NaN (numpy's x/0.0 and 0.0/0.0).      *)
(*    Rounding of IEEE doubles is not modelled.                            *)
(*  - A pandas DataFrame is [columns, rows]: the ordered metric columns    *)
(*    beside the two key columns project and department, and a bag of      *)
(*    rows.  The order of the rows is not modelled.                        *)
(*  - Time is counted in whole hours from an arbitrary origin, except in  *)
(*    the time window of prometheus_utils, which has calendar datetimes    *)
(*    to the second.                                                       *)
(***************************************************************************)
EXTENDS Integers, Sequences, FiniteSets, Bags, TLC

---------------------------------------------------------------------------
(* Bounds of the model.                                                    *)

\* Frames the interpreter allows on the call stack before it raises
\* RecursionError (sys.getrecursionlimit(), 1000 by default), scaled down.
MaxDepth == 5

---------------------------------------------------------------------------
(* Strings.                                                                *)

Digits == {"0", "1", "2", "3", "4", "5", "6", "7", "8", "9"}
Lowers == {"a", "b", "c", "d", "e", "f", "g", "h", "i", "j", "k", "l", "m",
           "n", "o", "p", "q", "r", "s", "t", "u", "v", "w", "x", "y", "z"}
Uppers == {"A", "B", "C", "D", "E", "F", "G", "H", "I", "J", "K", "L", "M",
           "N", "O", "P", "Q", "R", "S", "T", "U", "V", "W", "X", "Y", "Z"}

\* \w of Python's re module, for the ASCII characters the model uses.
WordChars == Lowers \cup Uppers \cup Digits \cup {"_"}

IsWordChar(c) == c \in WordChars

\* The character class [a-zA-Z0-9_:] of backfill_rule_recursive.
TokenChars == WordChars \cup {":"}

\* \s
SpaceChars == {" ", "\t", "\n"}

\* [\d\.]
NumberChars == Digits \cup {"."}

\* s[i:j] of Python with 1-based inclusive bounds.
Slice(s, i, j) == IF j < i THEN <<>> ELSE SubSeq(s, i, j)

\* re.search(re.escape(w), s) succeeding at position i (no boundaries).
OccursAt(w, s, i) ==
    /\ i >= 1
    /\ i + Len(w) - 1 <= Len(s)
    /\ Slice(s, i, i + Len(w) - 1) = w

\* Python's `a in b` for two str.
IsSubstring(a, b) == \E i \in 1..(Len(b) + 1) : OccursAt(a, b, i)

\* \b between s[i-1] and s[i]: exactly one side is a word character; the
\* outside of the string counts as a non-word character.
WordBoundary(s, i) ==
    LET before == i > 1 /\ i - 1 <= Len(s) /\ IsWordChar(s[i - 1])
        after  == i >= 1 /\ i <= Len(s) /\ IsWordChar(s[i])
    IN before # after

\* re.search(rf"\b{re.escape(rule)}\b", expr) is not None
WordSearch(rule, expr) ==
    \E i \in 1..(Len(expr) + 1) :
        /\ OccursAt(rule, expr, i)
        /\ WordBoundary(expr, i)
        /\ WordBoundary(expr, i + Len(rule))

\* The end of the maximal run of characters of the class cls that starts at
\* position i (i - 1 when s[i] is not in the class): a greedy cls*.
RECURSIVE RunEnd(_, _, _)
RunEnd(s, i, cls) ==
    IF i <= Len(s) /\ s[i] \in cls THEN RunEnd(s, i + 1, cls) ELSE i - 1

\* re.findall(r"[a-zA-Z0-9_:]+", expr): the maximal runs, left to right.
RECURSIVE TokensFrom(_, _)
TokensFrom(s, i) ==
    IF i > Len(s) THEN <<>>
    ELSE IF s[i] \in TokenChars
         THEN LET e == RunEnd(s, i, TokenChars)
              IN <<Slice(s, i, e)>> \o TokensFrom(s, e + 1)
         ELSE TokensFrom(s, i + 1)

Tokens(expr) == TokensFrom(expr, 1)

Range(seq) == {seq[i] : i \in DOMAIN seq}

---------------------------------------------------------------------------
(* Floats.                                                                 *)

RECURSIVE GCD(_, _)
GCD(a, b) == IF b = 0 THEN a ELSE GCD(b, a % b)

NaN == <<0, 0>>
Inf == <<1, 0>>
Zero == <<0, 1>>

Norm(q) ==
    LET g == GCD(q[1], q[2])
    IN IF g = 0 THEN NaN ELSE <<q[1] \div g, q[2] \div g>>

Float(n) == <<n, 1>>

\* a / b on float64: x/0.0 is inf and 0.0/0.0 is nan, no exception.
FloatDiv(a, b) == Norm(<<a[1] * b[2], a[2] * b[1]>>)

IsNaN(q) == q = NaN


\* The digits of a numeral read as a base-10 integer.
DigitVal(c) ==
    CASE c = "0" -> 0 [] c = "1" -> 1 [] c = "2" -> 2 [] c = "3" -> 3
      [] c = "4" -> 4 [] c = "5" -> 5 [] c = "6" -> 6 [] c = "7" -> 7
      [] c = "8" -> 8 [] c = "9" -> 9

RECURSIVE IntOfDigits(_)
IntOfDigits(ds) ==
    IF ds = <<>> THEN 0
    ELSE 10 * IntOfDigits(SubSeq(ds, 1, Len(ds) - 1)) + DigitVal(ds[Len(ds)])

RECURSIVE Pow10(_)
Pow10(n) == IF n = 0 THEN 1 ELSE 10 * Pow10(n - 1)

\* float(text) for a text of digits and dots: [ok, value]; ok is FALSE where
\* Python raises ValueError (no digit, or more than one dot).
ParseFloat(text) ==
    LET dots   == {i \in DOMAIN text : text[i] = "."}
        digits == SelectSeq(text, LAMBDA c : c \in Digits)
        frac   == IF dots = {} THEN 0
                  ELSE Len(text) - (CHOOSE i \in dots : TRUE)
    IN IF Cardinality(dots) > 1 \/ digits = <<>>
       THEN [ok |-> FALSE, value |-> NaN]
       ELSE [ok |-> TRUE, value |-> Norm(<<IntOfDigits(digits), Pow10(frac)>>)]

---------------------------------------------------------------------------
(* Text functions of prometheus_utils and of query_chunk's rule matching.  *)

LowerSeq ==
    <<"a", "b", "c", "d", "e", "f", "g", "h", "i", "j", "k", "l", "m", "n", "o", "p", "q", "r", "s", "t", "u", "v", "w", "x", "y", "z">>
UpperSeq ==
    <<"A", "B", "C", "D", "E", "F", "G", "H", "I", "J", "K", "L", "M", "N", "O", "P", "Q", "R", "S", "T", "U", "V", "W", "X", "Y", "Z">>

IndexIn(seq, c) == CHOOSE i \in DOMAIN seq : seq[i] = c

ToLower(c) == IF c \in Uppers THEN LowerSeq[IndexIn(UpperSeq, c)] ELSE c
ToUpper(c) == IF c \in Lowers THEN UpperSeq[IndexIn(LowerSeq, c)] ELSE c

\* str.lower()
Lower(s) == [i \in DOMAIN s |-> ToLower(s[i])]

\* str.title(): a letter that follows a letter is lowered, any other letter
\* is raised.
Title(s) ==
    [i \in DOMAIN s |->
        LET prev_cased == i > 1 /\ s[i - 1] \in (Lowers \cup Uppers)
        IN IF s[i] \in Lowers /\ ~prev_cased THEN ToUpper(s[i])
           ELSE IF s[i] \in Uppers /\ prev_cased THEN ToLower(s[i])
           ELSE s[i]]

\* str.replace(old, new) for a non-empty old: the non-overlapping
\* occurrences, leftmost first.
RECURSIVE Replace(_, _, _)
Replace(s, old, new) ==
    IF old = <<>> \/ Len(s) < Len(old) THEN s
    ELSE IF OccursAt(old, s, 1)
         THEN new \o Replace(SubSeq(s, Len(old) + 1, Len(s)), old, new)
         ELSE <<Head(s)>> \o Replace(Tail(s), old, new)

\* First characters of an identifier in extract_metric's pattern.
IdentStart == Lowers \cup Uppers \cup {"_", ":"}

\* Where the match of ([a-zA-Z_:][a-zA-Z0-9_:]*)\s*(?:[{(]) that starts at i
\* ends (the index of the bracket), or 0 if none starts at i.
CallMatchEnd(s, i) ==
    IF s[i] \notin IdentStart THEN 0
    ELSE LET e == RunEnd(s, i, TokenChars)
             b == RunEnd(s, e + 1, SpaceChars) + 1
         IN IF b <= Len(s) /\ s[b] \in {"{", "("} THEN b ELSE 0

\* re.findall of that pattern: the identifiers of the non-overlapping
\* matches, scanning from the left.
RECURSIVE FindCalls(_, _)
FindCalls(s, i) ==
    IF i > Len(s) THEN <<>>
    ELSE LET b == CallMatchEnd(s, i)
         IN IF b = 0 THEN FindCalls(s, i + 1)
            ELSE <<Slice(s, i, RunEnd(s, i, TokenChars))>>
                 \o FindCalls(s, b + 1)

PromqlFunctions ==
    {<<"s", "u", "m">>,
     <<"a", "v", "g">>,
     <<"m", "i", "n">>,
     <<"m", "a", "x">>,
     <<"c", "o", "u", "n", "t">>,
     <<"s", "t", "d", "d", "e", "v">>,
     <<"s", "t", "d", "v", "a", "r">>,
     <<"r", "a", "t", "e">>,
     <<"i", "r", "a", "t", "e">>,
     <<"i", "n", "c", "r", "e", "a", "s", "e">>,
     <<"d", "e", "l", "t", "a">>,
     <<"i", "d", "e", "l", "t", "a">>,
     <<"s", "u", "m", "_", "o", "v", "e", "r", "_", "t", "i", "m", "e">>,
     <<"a", "v", "g", "_", "o", "v", "e", "r", "_", "t", "i", "m", "e">>,
     <<"m", "i", "n", "_", "o", "v", "e", "r", "_", "t", "i", "m", "e">>,
     <<"m", "a", "x", "_", "o", "v", "e", "r", "_", "t", "i", "m", "e">>,
     <<"q", "u", "a", "n", "t", "i", "l", "e", "_", "o", "v", "e", "r", "_", "t", "i", "m", "e">>,
     <<"c", "o", "u", "n", "t", "_", "o", "v", "e", "r", "_", "t", "i", "m", "e">>,
     <<"l", "a", "s", "t", "_", "o", "v", "e", "r", "_", "t", "i", "m", "e">>}

UnknownMetric == <<"U", "n", "k", "n", "o", "w", "n", " ", "M", "e", "t", "r", "i", "c">>

\* token.split(":")[0]
BeforeColon(token) ==
    LET colons == {i \in DOMAIN token : token[i] = ":"}
    IN IF colons = {} THEN token
       ELSE Slice(token, 1, (CHOOSE i \in colons : \A k \in colons : i <= k) - 1)

PerInfix == <<"_", "p", "e", "r", "_">>
Alnum == Lowers \cup Uppers \cup Digits

\* re.sub(r'_per_[a-zA-Z0-9]+$', '', token)
StripPerSuffix(token) ==
    LET hits == {i \in DOMAIN token :
                    /\ OccursAt(PerInfix, token, i)
                    /\ i + Len(PerInfix) <= Len(token)
                    /\ \A k \in (i + Len(PerInfix))..Len(token) :
                          token[k] \in Alnum}
    IN IF hits = {} THEN token
       ELSE Slice(token, 1, (CHOOSE i \in hits : \A k \in hits : i <= k) - 1)

\* extract_metric
ExtractMetric(expr) ==
    LET matches == FindCalls(expr, 1)
        named   == SelectSeq(matches, LAMBDA t : t \notin PromqlFunctions)
    IN IF named = <<>> THEN UnknownMetric
       ELSE Title(Replace(StripPerSuffix(BeforeColon(named[1])),
                          <<"_">>, <<" ">>))

\* str(n) of an integer
RECURSIVE NatString(_)
NatString(n) ==
    IF n < 10 THEN <<CHOOSE c \in Digits : DigitVal(c) = n>>
    ELSE NatString(n \div 10)
         \o <<CHOOSE c \in Digits : DigitVal(c) = n % 10>>

IntString(n) == IF n < 0 THEN <<"-">> \o NatString(0 - n) ELSE NatString(n)

\* int(x / 3600): the quotient rounded toward zero.
IntDiv(x, n) == IF x >= 0 THEN x \div n ELSE 0 - ((0 - x) \div n)

\* Lines 66-67 for a delta of total_seconds seconds.
PrometheusDuration(total_seconds) ==
    IntString(IntDiv(total_seconds, 3600)) \o <<"h">>

\* compute_prometheus_duration(start, end) for times in whole hours.
ComputePrometheusDuration(start, end) ==
    PrometheusDuration((end - start) * 3600)

AllSentinel == <<"$", "_", "_", "a", "l", "l">>
AllListSentinel == <<"[", "'", "$", "_", "_", "a", "l", "l", "'", "]">>
Wildcard == <<".", "*">>
RangeToken == <<"$", "_", "_", "r", "a", "n", "g", "e">>

\* A value that is substituted as it is.
LiteralValue(value) == value

\* Lines 79-80: an empty value and the two forms of $__all become .*
SubstitutedValue(value) ==
    IF value = <<>> \/ value \in {AllSentinel, AllListSentinel}
    THEN Wildcard ELSE value

\* resolve_grafana_vars, for variables given as the sequence of the dict's
\* items [name, value] with string values.
RECURSIVE SubstituteVars(_, _)
SubstituteVars(query, variables) ==
    IF variables = <<>> THEN query
    ELSE LET var   == Head(variables).name
             value == SubstitutedValue(Head(variables).value)
         IN SubstituteVars(
               Replace(Replace(query, <<"$">> \o var, value),
                       <<"$", "{">> \o var \o <<"}">>, value),
               Tail(variables))

ResolveGrafanaVars(query, variables, start, end) ==
    Replace(SubstituteVars(query, variables), RangeToken,
            ComputePrometheusDuration(start, end))

\* The first "/" of s at or after i, or Len(s) + 1.
RECURSIVE NextSlash(_, _)
NextSlash(s, i) ==
    IF i > Len(s) \/ s[i] = "/" THEN i ELSE NextSlash(s, i + 1)

UidPrefix == <<"/", "d", "/">>

\* extract_uid_from_url: re.search(r"/d/([^/]+)/", url)
ExtractUidFromUrl(url) ==
    LET hits == {i \in DOMAIN url :
                    /\ OccursAt(UidPrefix, url, i)
                    /\ NextSlash(url, i + 3) > i + 3
                    /\ NextSlash(url, i + 3) <= Len(url)}
    IN IF hits = {} THEN [ok |-> FALSE, uid |-> <<>>]
       ELSE LET i == CHOOSE h \in hits : \A k \in hits : h <= k
            IN [ok |-> TRUE, uid |-> Slice(url, i + 3, NextSlash(url, i + 3) - 1)]

---------------------------------------------------------------------------
(* Dates and times: datetime, dateutil.relativedelta and pytz as           *)
(* prometheus_utils uses them.  A naive datetime is a record of its        *)
(* fields; an aware one carries its utcoffset in seconds as well.          *)

DateTime(y, mo, d, h, mi, s) ==
    [year |-> y, month |-> mo, day |-> d, hour |-> h, minute |-> mi,
     second |-> s]

\* The years the clock readings and their offsets fall in.  Offsets that
\* leave the range of datetime (a year before 1) are outside the model.
Years == 2022..2027

IsLeap(y) == y % 4 = 0 /\ (y % 100 # 0 \/ y % 400 = 0)

DaysInMonth(y, m) ==
    IF m = 2 THEN (IF IsLeap(y) THEN 29 ELSE 28)
    ELSE IF m \in {4, 6, 9, 11} THEN 30 ELSE 31

DaysBeforeYear(y) ==
    ((y - 1) * 365) + ((y - 1) \div 4) - ((y - 1) \div 100)
    + ((y - 1) \div 400)

RECURSIVE DaysBeforeMonth(_, _)
DaysBeforeMonth(y, m) ==
    IF m = 1 THEN 0 ELSE DaysBeforeMonth(y, m - 1) + DaysInMonth(y, m - 1)

\* date.toordinal()
ToOrdinal(y, m, d) == DaysBeforeYear(y) + DaysBeforeMonth(y, m) + d

\* date.weekday(): Monday is 0
Weekday(dt) == (ToOrdinal(dt.year, dt.month, dt.day) + 6) % 7

\* Seconds are counted from the first day of Years.
EpochOrdinal == ToOrdinal(2022, 1, 1)

SecondsPerDay == 24 * 3600

\* The seconds from the epoch to the wall-clock fields of dt.
WallSeconds(dt) ==
    ((ToOrdinal(dt.year, dt.month, dt.day) - EpochOrdinal) * SecondsPerDay)
    + (dt.hour * 3600) + (dt.minute * 60) + dt.second

\* The datetime whose fields lie t seconds after the epoch.
FromSeconds(t) ==
    LET ord == (t \div SecondsPerDay) + EpochOrdinal
        rem == t % SecondsPerDay
        y   == CHOOSE yy \in Years :
                  DaysBeforeYear(yy) < ord /\ ord <= DaysBeforeYear(yy + 1)
        n   == ord - DaysBeforeYear(y)
        m   == CHOOSE mm \in 1..12 :
                  /\ DaysBeforeMonth(y, mm) < n
                  /\ n <= DaysBeforeMonth(y, mm) + DaysInMonth(y, mm)
    IN DateTime(y, m, n - DaysBeforeMonth(y, m),
                rem \div 3600, (rem % 3600) \div 60, rem % 60)

\* dt + timedelta(seconds=n)
AddSeconds(dt, n) == FromSeconds(WallSeconds(dt) + n)

Min(a, b) == IF a <= b THEN a ELSE b

\* The seconds of relativedelta's fixed-length units.
UnitSeconds ==
    ("s" :> 1) @@ ("m" :> 60) @@ ("h" :> 3600) @@ ("d" :> SecondsPerDay)
    @@ ("w" :> 7 * SecondsPerDay)

\* now - relativedelta(months=value): the month moves, the day is cut to
\* the length of the new month (relativedelta.__radd__).
SubtractMonths(now, value) ==
    LET total == now.year * 12 + (now.month - 1) - value
        y     == total \div 12
        m     == (total % 12) + 1
    IN [now EXCEPT !.year = y, !.month = m,
                   !.day = Min(now.day, DaysInMonth(y, m))]

\* A relative time that lies after now instead of before it.
RelativeDeltaForward(now, value, unit) ==
    IF unit = "M" THEN SubtractMonths(now, 0 - value)
    ELSE AddSeconds(now, value * UnitSeconds[unit])

\* Lines 18-29: now - relativedelta(<unit>=value).
RelativeDelta(now, value, unit) ==
    IF unit = "M" THEN SubtractMonths(now, value)
    ELSE AddSeconds(now, 0 - value * UnitSeconds[unit])

TimeUnits == {"s", "m", "h", "d", "w", "M"}

NowMinus == <<"n", "o", "w", "-">>

\* re.match(r"now-(\d+)([smhdwM])", time_str): the match is anchored at
\* the start only.
RelativeMatch(time_str) ==
    LET e == RunEnd(time_str, Len(NowMinus) + 1, Digits)
    IN IF /\ OccursAt(NowMinus, time_str, 1)
          /\ e > Len(NowMinus)
          /\ e + 1 <= Len(time_str)
          /\ time_str[e + 1] \in TimeUnits
       THEN [found |-> TRUE,
             value |-> IntOfDigits(Slice(time_str, Len(NowMinus) + 1, e)),
             unit |-> time_str[e + 1], end |-> e + 1]
       ELSE [found |-> FALSE, value |-> 0, unit |-> "", end |-> 0]

\* str.endswith
EndsWith(s, suffix) ==
    Len(s) >= Len(suffix) /\ OccursAt(suffix, s, Len(s) - Len(suffix) + 1)

\* The middle of the day instead of its start.
Noon(dt) == [dt EXCEPT !.hour = 12, !.minute = 0, !.second = 0]

\* dt.replace(hour=0, minute=0, second=0)
Midnight(dt) == [dt EXCEPT !.hour = 0, !.minute = 0, !.second = 0]

\* Lines 35-41: the truncation suffixes.
Truncate(time_str, dt) ==
    IF EndsWith(time_str, <<"/", "M">>) THEN [Midnight(dt) EXCEPT !.day = 1]
    ELSE IF EndsWith(time_str, <<"/", "d">>) THEN Midnight(dt)
    ELSE IF EndsWith(time_str, <<"/", "w">>)
    THEN Midnight(AddSeconds(dt, 0 - Weekday(dt) * SecondsPerDay))
    ELSE dt

\* parse_grafana_time(time_str) when datetime.utcnow() reads `now`.
ParseGrafanaTime(time_str, now) ==
    IF time_str = <<"n", "o", "w">> THEN now
    ELSE LET m == RelativeMatch(time_str)
         IN Truncate(time_str,
                     IF m.found THEN RelativeDelta(now, m.value, m.unit)
                     ELSE now)

\* The last Sunday of a month, on which Europe/Amsterdam changes its
\* offset at 01:00 UTC.
LastSunday(y, m) ==
    LET last == DaysInMonth(y, m)
    IN last - ((Weekday(DateTime(y, m, last, 0, 0, 0)) + 1) % 7)

\* utcoffset of Europe/Amsterdam at a UTC time: CEST between the last
\* Sundays of March and October, CET otherwise.
AmsterdamOffset(utc) ==
    LET t    == WallSeconds(utc)
        from == WallSeconds(DateTime(utc.year, 3, LastSunday(utc.year, 3),
                                     1, 0, 0))
        to   == WallSeconds(DateTime(utc.year, 10, LastSunday(utc.year, 10),
                                     1, 0, 0))
    IN IF from <= t /\ t < to THEN 2 * 3600 ELSE 3600

\* pytz.utc.localize(dt).astimezone(CET_TZ)
ToAmsterdam(utc) ==
    LET off   == AmsterdamOffset(utc)
        local == AddSeconds(utc, off)
    IN [year |-> local.year, month |-> local.month, day |-> local.day,
        hour |-> local.hour, minute |-> local.minute,
        second |-> local.second, utcoffset |-> off]

\* The instant of an aware datetime, in seconds from the epoch.  Aware
\* datetimes are compared and subtracted by their instants (pytz gives the
\* two offsets of a zone distinct tzinfo objects).
Instant(aware) == WallSeconds(aware) - aware.utcoffset

\* compute_range_from_env(time_from, time_to) when the clock reads now_1
\* in the first call of parse_grafana_time and now_2 in the second.
ComputeRangeFromEnv(from, to, now_1, now_2) ==
    <<ToAmsterdam(ParseGrafanaTime(from, now_1)),
      ToAmsterdam(ParseGrafanaTime(to, now_2))>>

---------------------------------------------------------------------------
(* DataFrames.                                                             *)

Unknown == <<"u", "n", "k", "n", "o", "w", "n">>

\* pd.DataFrame(columns=["project", "department", name])
EmptyDataFrame(name) ==
    [type |-> "DataFrame", columns |-> <<name>>, rows |-> EmptyBag]

DataFrame(columns, rows) ==
    [type |-> "DataFrame", columns |-> columns, rows |-> rows]

Row(project, department, vals) ==
    [project |-> project, department |-> department, vals |-> vals]

RECURSIVE SumCounts(_, _)
SumCounts(B, S) ==
    IF S = {} THEN 0
    ELSE LET e == CHOOSE x \in S : TRUE
         IN B[e] + SumCounts(B, S \ {e})

\* The bag of the images img[e] of the elements of bag B.
MapBag(B, img) ==
    [y \in {img[e] : e \in DOMAIN B} |->
        SumCounts(B, {e \in DOMAIN B : img[e] = y})]

\* len(df)
NRows(df) == BagCardinality(df.rows)

\* df.empty: no rows (every frame here has columns).
IsEmpty(df) == NRows(df) = 0

\* df[new] = df[old]: overwrite the column new, or append it.
CopyColumn(df, new, old) ==
    DataFrame(IF new \in Range(df.columns) THEN df.columns
              ELSE Append(df.columns, new),
              MapBag(df.rows,
                     [r \in DOMAIN df.rows |->
                        [r EXCEPT !.vals = (new :> r.vals[old]) @@ r.vals]]))

\* df.drop(columns=c, inplace=True)
DropColumn(df, c) ==
    DataFrame(SelectSeq(df.columns, LAMBDA x : x # c),
              MapBag(df.rows,
                     [r \in DOMAIN df.rows |->
                        [r EXCEPT !.vals =
                            [x \in (DOMAIN r.vals) \ {c} |-> r.vals[x]]]]))

\* df[c] = df[c] / divisor
DivideColumn(df, c, divisor) ==
    DataFrame(df.columns,
              MapBag(df.rows,
                     [r \in DOMAIN df.rows |->
                        [r EXCEPT !.vals[c] = FloatDiv(@, divisor)]]))

\* The keys (project, department) of the rows of a frame.
KeyOf(r) == <<r.project, r.department>>

Keys(df) == {KeyOf(r) : r \in DOMAIN df.rows}

\* The rows of a frame that carry the key k, counted with multiplicity.
KeyCount(df, k) ==
    SumCounts(df.rows, {r \in DOMAIN df.rows : KeyOf(r) = k})

\* pd.concat([a, b], ignore_index=True): the rows of both, over the union
\* of the columns, NaN where a frame lacks a column.
Concat2(a, b) ==
    LET extra == SelectSeq(b.columns, LAMBDA c : c \notin Range(a.columns))
        cols  == a.columns \o extra
        pad   == [c \in Range(cols) |-> NaN]
    IN DataFrame(cols,
                 MapBag(a.rows, [r \in DOMAIN a.rows |->
                                    [r EXCEPT !.vals = @ @@ pad]])
                 (+) MapBag(b.rows, [r \in DOMAIN b.rows |->
                                       [r EXCEPT !.vals = @ @@ pad]]))

\* pd.concat(dfs, ignore_index=True) of a non-empty list.
RECURSIVE Concat(_)
Concat(dfs) ==
    IF Len(dfs) = 1 THEN dfs[1]
    ELSE Concat2(Concat(SubSeq(dfs, 1, Len(dfs) - 1)), dfs[Len(dfs)])

\* A merge that stacks the rows of both frames instead of joining them on
\* the keys (pd.concat in the place of pd.merge).
MergeAsConcat(left, right) == Concat2(left, right)

\* The suffixes pandas appends to a metric column both frames of a merge hold.
SuffixX == <<"_", "x">>
SuffixY == <<"_", "y">>

\* pd.merge(left, right, on=["project", "department"], how="outer"): every
\* pair of rows with the same key, and every row without a partner padded
\* with NaN; a metric column of both frames is kept twice, as <c>_x and
\* <c>_y.
Merge(left, right) ==
    LET lc     == Range(left.columns)
        rc     == Range(right.columns)
        lname  == [c \in lc |-> IF c \in rc THEN c \o SuffixX ELSE c]
        rname  == [c \in rc |-> IF c \in lc THEN c \o SuffixY ELSE c]
        lvals  == [l \in DOMAIN left.rows |->
                     [n \in {lname[c] : c \in lc} |->
                        l.vals[CHOOSE c \in lc : lname[c] = n]]]
        rvals  == [r \in DOMAIN right.rows |->
                     [n \in {rname[c] : c \in rc} |->
                        r.vals[CHOOSE c \in rc : rname[c] = n]]]
        lnan   == [n \in {lname[c] : c \in lc} |-> NaN]
        rnan   == [n \in {rname[c] : c \in rc} |-> NaN]
        pairs  == {pr \in (DOMAIN left.rows) \X (DOMAIN right.rows) :
                      KeyOf(pr[1]) = KeyOf(pr[2])}
        lonly  == {l \in DOMAIN left.rows : KeyOf(l) \notin Keys(right)}
        ronly  == {r \in DOMAIN right.rows : KeyOf(r) \notin Keys(left)}
    IN DataFrame(
         [i \in DOMAIN left.columns |-> lname[left.columns[i]]]
            \o [i \in DOMAIN right.columns |-> rname[right.columns[i]]],
         MapBag([pr \in pairs |-> left.rows[pr[1]] * right.rows[pr[2]]],
                [pr \in pairs |->
                   Row(pr[1].project, pr[1].department,
                       lvals[pr[1]] @@ rvals[pr[2]])])
         (+) MapBag([l \in lonly |-> left.rows[l]],
                    [l \in lonly |->
                       Row(l.project, l.department, lvals[l] @@ rnan)])
         (+) MapBag([r \in ronly |-> right.rows[r]],
                    [r \in ronly |->
                       Row(r.project, r.department, lnan @@ rvals[r])]))

\* df.fillna(0)
FillNa(df) ==
    DataFrame(df.columns,
              MapBag(df.rows,
                     [r \in DOMAIN df.rows |->
                        [r EXCEPT !.vals =
                            [c \in DOMAIN r.vals |->
                                IF IsNaN(r.vals[c]) THEN Zero
                                ELSE r.vals[c]]]]))

\* The fixed header table of lines 116-121.
RunaiAllocatedGpuCount ==
    <<"R", "u", "n", "a", "i", " ", "A", "l", "l", "o", "c", "a", "t", "e", "d", " ", "G", "p", "u", " ", "C", "o", "u", "n", "t">>
RunaiAllocatedMillicpus ==
    <<"R", "u", "n", "a", "i", " ", "A", "l", "l", "o", "c", "a", "t", "e", "d", " ", "M", "i", "l", "l", "i", "c", "p", "u", "s">>
RunaiUsedCpuCores ==
    <<"R", "u", "n", "a", "i", " ", "U", "s", "e", "d", " ", "C", "p", "u", " ", "C", "o", "r", "e", "s">>
RunaiUsedMemoryBytes ==
    <<"R", "u", "n", "a", "i", " ", "U", "s", "e", "d", " ", "M", "e", "m", "o", "r", "y", " ", "B", "y", "t", "e", "s">>
GpuAllocationHours ==
    <<"G", "P", "U", " ", "a", "l", "l", "o", "c", "a", "t", "i", "o", "n", " ", "h", "o", "u", "r", "s", ".">>
AllocatedMCpus ==
    <<"A", "l", "l", "o", "c", "a", "t", "e", "d", " ", "m", "C", "P", "U", "s">>
CpuUsageCores ==
    <<"C", "P", "U", " ", "U", "s", "a", "g", "e", " ", "(", "c", "o", "r", "e", "s", ")">>
MemoryUsageBytes ==
    <<"M", "e", "m", "o", "r", "y", " ", "U", "s", "a", "g", "e", " ", "(", "b", "y", "t", "e", "s", ")">>

Header(c) ==
    CASE c = RunaiAllocatedGpuCount -> GpuAllocationHours
      [] c = RunaiAllocatedMillicpus -> AllocatedMCpus
      [] c = RunaiUsedCpuCores -> CpuUsageCores
      [] c = RunaiUsedMemoryBytes -> MemoryUsageBytes
      [] OTHER -> c

\* panel_df.rename(columns={...}, inplace=True)
RenameColumns(df) ==
    DataFrame([i \in DOMAIN df.columns |-> Header(df.columns[i])],
              MapBag(df.rows,
                     [r \in DOMAIN df.rows |->
                        [r EXCEPT !.vals =
                            [h \in {Header(c) : c \in DOMAIN r.vals} |->
                                r.vals[CHOOSE c \in DOMAIN r.vals :
                                          Header(c) = h]]]]))

\* No DataFrame yet: panel_df = None.
NoneDf == [type |-> "None", columns |-> <<>>, rows |-> EmptyBag]

\* Lines 109-111: panel_df = df if panel_df is None else pd.merge(...).
MergeInto(panel, df) ==
    IF panel.type = "None" THEN df ELSE Merge(panel, df)

\* Line 114: the panel has data to save.
HasData(panel) == panel.type # "None" /\ ~IsEmpty(panel)

\* Lines 115-121: what is written to the panel's CSV file.
CsvTable(panel) == RenameColumns(FillNa(panel))

\* re.sub(r'[^A-Za-z0-9_\-]', '_', title)
SafeTitle(title) ==
    [i \in DOMAIN title |->
        IF title[i] \in WordChars \cup {"-"} THEN title[i] ELSE "_"]

---------------------------------------------------------------------------
(* The metrics backend and the projection of its answers.                  *)

\* resp.json() of an answer without series
EmptyResult == [type |-> "dict", result |-> <<>>]

Series(metric, values) == [metric |-> metric, values |-> values]

\* metric_labels.get(label, "unknown")
LabelOf(metric, label) ==
    IF label \in DOMAIN metric THEN metric[label] ELSE Unknown

\* The value of the first sample of a series.
FirstValue(values) == values[1][2]

\* _, value = r["values"][-1]
LastValue(values) == values[Len(values)][2]

\* The rows _prometheus_result_to_df appends for the series of a result.
RECURSIVE SeriesRows(_, _)
SeriesRows(result, column_name) ==
    IF result = <<>> THEN EmptyBag
    ELSE LET r == Head(result)
             rest == SeriesRows(Tail(result), column_name)
         IN IF r.values # <<>>
            THEN SetToBag({Row(LabelOf(r.metric, "project"),
                               LabelOf(r.metric, "department"),
                               column_name :> LastValue(r.values))})
                 (+) rest
            ELSE rest

\* RecordingRuleBackfill._prometheus_result_to_df
PrometheusResultToDf(results, column_name) ==
    LET rows == SeriesRows(results.result, column_name)
    IN DataFrame(<<column_name>>,
                 IF BagCardinality(rows) = 0
                 THEN SetToBag({Row(Unknown, Unknown, column_name :> Zero)})
                 ELSE rows)


\* The divisor text of re.search(r"/\s*([\d\.]+)", expr): the leftmost "/"
\* that is followed, after any whitespace, by a digit or a dot.
ScalarDivisor(expr) ==
    LET hits == {i \in DOMAIN expr :
                    /\ expr[i] = "/"
                    /\ LET j == RunEnd(expr, i + 1, SpaceChars) + 1
                       IN j <= Len(expr) /\ expr[j] \in NumberChars}
    IN IF hits = {} THEN [found |-> FALSE, text |-> <<>>]
       ELSE LET i == CHOOSE h \in hits : \A k \in hits : h <= k
                j == RunEnd(expr, i + 1, SpaceChars) + 1
            IN [found |-> TRUE,
                text |-> Slice(expr, j, RunEnd(expr, j, NumberChars))]

\* The samples of a series divided by a scalar, as the backend evaluates
\* `metric / scalar`.
DivideSeries(series, divisor) ==
    [i \in DOMAIN series |->
        Series(series[i].metric,
               [k \in DOMAIN series[i].values |->
                   <<series[i].values[k][1],
                     FloatDiv(series[i].values[k][2], divisor)>>])]

\* The answer of GET /api/v1/query_range for expr over a store db (metric
\* name -> series): the series of the first stored metric the expression
\* names, divided by the scalar of a `/ <number>` in it.  Recorded rule
\* names have no stored series.
PromEval(db, expr) ==
    LET named == SelectSeq(Tokens(expr), LAMBDA t : t \in DOMAIN db)
        sd    == ScalarDivisor(expr)
        pf    == ParseFloat(sd.text)
    IN IF named = <<>> THEN EmptyResult
       ELSE [type |-> "dict",
             result |-> IF sd.found /\ pf.ok
                        THEN DivideSeries(db[named[1]], pf.value)
                        ELSE db[named[1]]]

---------------------------------------------------------------------------
(* The rule mapping.                                                       *)

\* self.rules_map is a dict: a sequence of [record, expr] with distinct
\* records, in insertion order.
RuleNames(rules) == [i \in DOMAIN rules |-> rules[i].record]

\* name in self.rules_map
HasRule(rules, name) == \E i \in DOMAIN rules : rules[i].record = name

\* self.rules_map[name]
ExprOf(rules, name) ==
    rules[CHOOSE i \in DOMAIN rules : rules[i].record = name].expr

\* RecordingRuleBackfill._find_dependencies
FindDependencies(rules, expr) ==
    SelectSeq(RuleNames(rules), LAMBDA rule : WordSearch(rule, expr))

\* dependency_rules of backfill_rule_recursive
DependencyRules(rules, expr, record_name) ==
    SelectSeq(Tokens(expr),
              LAMBDA tok : HasRule(rules, tok) /\ tok # record_name)

\* self.backfill_rule(...): RecordingRuleBackfill defines no such attribute,
\* so the attribute lookup raises.
BackfillRule(record_name) == [kind |-> "raise", exc |-> "AttributeError"]

Rule(record, expr) == [record |-> record, expr |-> expr]

\* backfill_rule_recursive as one evaluation: how the call of record_name
\* with the visited set vis ends, and the visited set it leaves.  The calls
\* share no state but visited, so a worker's call is one step of a run.
RECURSIVE BackfillRuleRecursive(_, _, _, _)
RECURSIVE BackfillDependencies(_, _, _, _, _)
BackfillRuleRecursive(rules, record_name, vis, depth) ==
    IF depth > MaxDepth
    THEN [kind |-> "raise", exc |-> "RecursionError", value |-> EmptyResult,
          visited |-> vis]
    ELSE IF record_name \in vis \/ ~HasRule(rules, record_name)
    THEN [kind |-> "return", exc |-> "", value |-> EmptyResult,
          visited |-> vis]
    ELSE LET deps == DependencyRules(rules, ExprOf(rules, record_name),
                                     record_name)
             r    == BackfillDependencies(rules, deps, 1,
                                          vis \cup {record_name}, depth)
             res  == BackfillRule(record_name)
         IN IF r.kind = "raise" THEN r
            ELSE IF res.kind = "raise"
                 THEN [kind |-> "raise", exc |-> res.exc,
                       value |-> EmptyResult, visited |-> r.visited]
                 ELSE [kind |-> "return", exc |-> "", value |-> res.value,
                       visited |-> r.visited]

\* The loop of lines 128-130 from the i-th dependency on.
BackfillDependencies(rules, deps, i, vis, depth) ==
    IF i > Len(deps)
    THEN [kind |-> "return", exc |-> "", value |-> EmptyResult,
          visited |-> vis]
    ELSE LET r == BackfillRuleRecursive(rules, deps[i], vis, depth + 1)
         IN IF r.kind = "raise" THEN r
            ELSE BackfillDependencies(rules, deps, i + 1, r.visited, depth)


---------------------------------------------------------------------------
(* State.                                                                  *)

VARIABLES
    \* RecordingRuleBackfill and the metrics backend
    rules_map,      \* backfiller.rules_map
    tsdb,           \* the series the backend stores: metric name -> series
    window,         \* <<start, end>> handed to the engine
    call,           \* the entry point and rule of the outermost engine call
    stack,          \* the engine's call stack, innermost frame last
    visited,        \* the visited set shared by backfill_rule_recursive calls
    outcome,        \* how the outermost engine call ended
    queries,        \* the range queries the engine issued, in order
    derived,        \* the rules whose own value the outermost call derived
    epc,            \* idle | running | done
    \* the merge of a panel's per-expression tables
    expr_dfs,       \* the per-expression tables still to merge (df, line 104)
    done_dfs,       \* the per-expression tables merged so far
    panel_df,       \* panel_df
    csv_files,      \* the CSV files written: [path, table]
    mpc,            \* merging | saved
    \* the chunk loop
    start_dt,       \* start_dt
    end_dt,         \* end_dt
    chunk_hours,    \* chunk_hours
    chunk_start,    \* chunk_start
    chunk_ranges,   \* chunk_ranges
    cpc,            \* loop | done
    \* a report run (process_report)
    pc,             \* the position of the run
    dashboard_url,  \* dashboard_url
    dashboard,      \* the dashboard the Grafana server holds
    email_to,       \* email_to (<<>> for None)
    max_workers,    \* max_workers
    temp_uid,       \* temp_uid (<<>> for None)
    table_panels,   \* table_panels (report.py), panels (report_api.py)
    grafana_vars,   \* GRAFANA_VARS
    pi,             \* index of the panel in work
    ei,             \* index of the expression in work
    expr_resolved,  \* expr_resolved
    metric_name,    \* metric_name
    futures,        \* the chunk tasks handed to the executor
    backfill_cache, \* backfill_cache
    engine_calls,   \* bag of the cache keys the engine was called for
    errors,         \* the error and warning records logged
    abort,          \* the step whose exception the run's except caught
    raised,         \* the exception that left process_report
    processed,      \* the <<panel, expression>> pairs merged into a table
    pdf_path,       \* pdf_path (<<>> while unset)
    emails,         \* the e-mails sent
    delete_calls,   \* the delete requests issued for temp_uid
    \* generate_csv_from_table_panels (report_api.py)
    attempt,        \* attempt of fetch_table_panel_csv's retry loop
    posts,          \* the /api/ds/query requests issued for the panel in work
    sleeps,         \* the delays slept in the retry loops
    all_rows,       \* the panels whose rows were written to the CSV
    fetched,        \* what fetch_table_panel_csv returned, per panel
    \* the time window (prometheus_utils)
    time_from,      \* TIME_FROM
    time_to,        \* TIME_TO_CSV
    utcnow,         \* what datetime.utcnow() reads
    nows,           \* `now` of the two calls of parse_grafana_time
    parsed,         \* what the two calls of parse_grafana_time returned
    trange,         \* <<start, end>> of compute_range_from_env
    duration,       \* what compute_prometheus_duration returned
    tpc,            \* env | range | done
    \* the pure functions of the engine and of prometheus_utils
    fn_call,        \* the function applied and its arguments
    fn_result,      \* what it returned
    fpc             \* call | done

engineVars ==
    <<rules_map, tsdb, window, call, stack, visited, outcome, queries,
      derived, epc>>

mergeVars == <<expr_dfs, done_dfs, panel_df, csv_files, mpc>>

chunkVars ==
    <<start_dt, end_dt, chunk_hours, chunk_start, chunk_ranges, cpc>>

runVars ==
    <<pc, dashboard_url, dashboard, email_to, max_workers, temp_uid,
      table_panels, grafana_vars, pi, ei, expr_resolved, metric_name,
      futures, backfill_cache, engine_calls, errors, abort, raised,
      processed, pdf_path, emails, delete_calls>>

csvVars == <<attempt, posts, sleeps, all_rows, fetched>>

timeVars ==
    <<time_from, time_to, utcnow, nows, parsed, trange, duration, tpc>>

fnVars == <<fn_call, fn_result, fpc>>

pureVars == <<timeVars, fnVars>>

vars == <<engineVars, mergeVars, chunkVars, runVars, csvVars, pureVars>>

\* What the actions of one part leave alone.
notEngine == <<mergeVars, chunkVars, runVars, csvVars, pureVars>>
notMerge == <<engineVars, chunkVars, runVars, csvVars, pureVars>>
notChunk == <<engineVars, mergeVars, runVars, csvVars, pureVars>>
notTime == <<engineVars, mergeVars, chunkVars, runVars, csvVars, fnVars>>
notFn == <<engineVars, mergeVars, chunkVars, runVars, csvVars, timeVars>>

\* The variables a specification does not use rest at these values.
EngineParked ==
    /\ rules_map = <<>> /\ tsdb = <<>> /\ window = <<0, 0>>
    /\ call = [fn |-> "", rule |-> <<>>]
    /\ stack = <<>> /\ visited = {} /\ queries = <<>> /\ epc = "parked"
    /\ derived = {}
    /\ outcome = [kind |-> "none"]

MergeParked ==
    /\ expr_dfs = <<>> /\ done_dfs = <<>> /\ panel_df = <<>>
    /\ csv_files = <<>> /\ mpc = "parked"

ChunkParked ==
    /\ start_dt = 0 /\ end_dt = 0 /\ chunk_hours = 0 /\ chunk_start = 0
    /\ chunk_ranges = <<>> /\ cpc = "parked"

RunParked ==
    /\ pc = "parked" /\ dashboard_url = <<>> /\ dashboard = <<>>
    /\ email_to = <<>> /\ max_workers = 0 /\ temp_uid = <<>>
    /\ table_panels = <<>> /\ grafana_vars = <<>> /\ pi = 0 /\ ei = 0
    /\ expr_resolved = <<>> /\ metric_name = <<>> /\ futures = <<>>
    /\ backfill_cache = <<>> /\ engine_calls = EmptyBag /\ errors = {}
    /\ abort = "" /\ raised = "" /\ processed = {} /\ pdf_path = <<>>
    /\ emails = <<>> /\ delete_calls = 0

CsvParked ==
    /\ attempt = 0 /\ posts = <<>> /\ sleeps = 0 /\ all_rows = <<>>
    /\ fetched = <<>>

TimeParked ==
    /\ time_from = <<>> /\ time_to = <<>> /\ utcnow = 0 /\ nows = <<>>
    /\ parsed = <<>> /\ trange = <<>> /\ duration = <<>> /\ tpc = "parked"

FnParked == fn_call = <<>> /\ fn_result = <<>> /\ fpc = "parked"

PureParked == TimeParked /\ FnParked

---------------------------------------------------------------------------
(* Names and inputs of the backfill engine.                                *)

\* The names gpu_hours and raw_gpu_seconds, abbreviated.
gpu_hours == <<"g", "h">>
raw_gpu_seconds == <<"r", "s">>
rule_a == <<"a">>
rule_b == <<"b">>
rule_c == <<"c">>
raw_r == <<"r">>
no_rule == <<"z">>
p1 == <<"p", "1">>
d1 == <<"d", "1">>
p2 == <<"p", "2">>
d2 == <<"d", "2">>

\* gpu_hours = raw_gpu_seconds / 3600
DocGpu == <<Rule(gpu_hours, raw_gpu_seconds \o <<" ", "/", " ", "3", "6", "0", "0">>)>>

\* a = b / 2, b = r
DocChain == <<Rule(rule_a, <<"b", " ", "/", " ", "2">>), Rule(rule_b, raw_r)>>

\* a = b, b = a: a dependency cycle
DocCycle == <<Rule(rule_a, <<"b">>), Rule(rule_b, <<"a">>)>>

\* a = a / 2: a rule whose expression mentions its own name
DocSelf == <<Rule(rule_a, <<"a", " ", "/", " ", "2">>)>>

\* a = b, b = r: a derived rule without a division
DocPlain == <<Rule(rule_a, <<"b">>), Rule(rule_b, raw_r)>>

\* a = c + b / 4, b = r, c = rs: two dependencies, of which the mapping
\* holds b first
DocTwo ==
    <<Rule(rule_a, <<"c", " ", "+", " ", "b", " ", "/", " ", "4">>),
      Rule(rule_b, raw_r), Rule(rule_c, raw_gpu_seconds)>>

RuleDocs == {DocGpu, DocChain, DocCycle, DocSelf, DocPlain, DocTwo}

CyclicDocs == {DocCycle, DocSelf}

Labels(project, department) ==
    ("project" :> project) @@ ("department" :> department)

\* Two labelled series with samples, for both raw metrics.
RawSeries ==
    <<Series(Labels(p1, d1), <<<<0, Float(3600)>>, <<1, Float(7200)>>>>),
      Series(Labels(p2, d2), <<<<1, Float(5400)>>>>)>>

StoreFull == (raw_gpu_seconds :> RawSeries) @@ (raw_r :> RawSeries)

\* One series without labels and one without samples.
StoreSparse ==
    (raw_gpu_seconds :> <<Series(<<>>, <<<<1, Float(3600)>>>>)>>)
    @@ (raw_r :> <<Series(Labels(p1, d1), <<>>)>>)

Stores == {StoreFull, StoreSparse}

Windows == {<<0, 24>>, <<24, 30>>}

EntryPoints == {"recompute_rule_for_timeframe", "backfill_rule_recursive"}

---------------------------------------------------------------------------
(* The backfill engine, one step per call, return or raise.                *)

Outcome(kind, exc, value) == [kind |-> kind, exc |-> exc, value |-> value]

NoOutcome == Outcome("none", "", EmptyResult)

NoCall == [fn |-> "", rule |-> <<>>]

Frame(fn, rule) ==
    [fn |-> fn, rule |-> rule, pc |-> "enter", deps |-> <<>>, i |-> 1,
     dep_dfs |-> <<>>]

Top == stack[Len(stack)]

\* `return v`: the frame is popped; the caller stores the value
\* (dep_dfs[dep] = ..., line 68) or drops it (line 130) and moves on.
DoReturn(v) ==
    IF Len(stack) = 1
    THEN /\ stack' = <<>>
         /\ outcome' = Outcome("return", "", v)
         /\ epc' = "done"
    ELSE LET caller == stack[Len(stack) - 1]
             resumed ==
                [caller EXCEPT
                    !.i = @ + 1,
                    !.dep_dfs =
                        IF caller.fn = "recompute_rule_for_timeframe"
                        THEN (caller.deps[caller.i] :> v) @@ @
                        ELSE @]
         IN /\ stack' = Append(SubSeq(stack, 1, Len(stack) - 2), resumed)
            /\ UNCHANGED <<outcome, epc>>

\* An exception: no frame of the engine catches it.
DoRaise(exc) ==
    /\ stack' = <<>>
    /\ outcome' = Outcome("raise", exc, EmptyResult)
    /\ epc' = "done"

\* A call: a new frame, or RecursionError at the interpreter's limit.
DoCall(fn, rule) ==
    IF Len(stack) >= MaxDepth
    THEN DoRaise("RecursionError")
    ELSE /\ stack' = Append(stack, Frame(fn, rule))
         /\ UNCHANGED <<outcome, epc>>

\* query_prometheus_range(expr, start, end, step) as the engine calls it.
Query(expr) == [expr |-> expr, start |-> window[1], end |-> window[2]]

\* A caller invokes one of the two entry points with visited=None.
Invoke(fn, rule) ==
    /\ epc = "idle"
    /\ call' = [fn |-> fn, rule |-> rule]
    /\ stack' = <<Frame(fn, rule)>>
    /\ visited' = {}
    /\ epc' = "running"
    /\ derived' = {}
    /\ UNCHANGED <<rules_map, tsdb, window, outcome, queries>>
    /\ UNCHANGED notEngine

\* A lookup of the rule's expression without the test of line 52.
RecomputeUnknownRaises ==
    /\ epc = "running"
    /\ Top.fn = "recompute_rule_for_timeframe" /\ Top.pc = "enter"
    /\ ~HasRule(rules_map, Top.rule)
    /\ DoRaise("KeyError")
    /\ UNCHANGED <<rules_map, tsdb, window, call, visited, queries, derived>>
    /\ UNCHANGED notEngine

\* recompute_rule_for_timeframe, lines 52-54: no such rule.
RecomputeUnknown ==
    /\ epc = "running"
    /\ Top.fn = "recompute_rule_for_timeframe" /\ Top.pc = "enter"
    /\ ~HasRule(rules_map, Top.rule)
    /\ DoReturn(EmptyDataFrame(Top.rule))
    /\ UNCHANGED <<rules_map, tsdb, window, call, visited, queries, derived>>
    /\ UNCHANGED notEngine

\* recompute_rule_for_timeframe, lines 56-63: a raw-level expression.
RecomputeRaw ==
    /\ epc = "running"
    /\ Top.fn = "recompute_rule_for_timeframe" /\ Top.pc = "enter"
    /\ HasRule(rules_map, Top.rule)
    /\ LET expr == ExprOf(rules_map, Top.rule)
       IN /\ FindDependencies(rules_map, expr) = <<>>
          /\ queries' = Append(queries, Query(expr))
          /\ \/ /\ DoReturn(PrometheusResultToDf(PromEval(tsdb, expr),
                                               Top.rule))
                /\ derived' = derived \cup {Top.rule}
             \/ /\ DoRaise("RequestException")
                /\ UNCHANGED derived
    /\ UNCHANGED <<rules_map, tsdb, window, call, visited>>
    /\ UNCHANGED notEngine

\* recompute_rule_for_timeframe, lines 56-67: the rule has dependencies.
RecomputeDeps ==
    /\ epc = "running"
    /\ Top.fn = "recompute_rule_for_timeframe" /\ Top.pc = "enter"
    /\ HasRule(rules_map, Top.rule)
    /\ LET deps == FindDependencies(rules_map, ExprOf(rules_map, Top.rule))
       IN /\ deps # <<>>
          /\ stack' = [stack EXCEPT ![Len(stack)] =
                          [@ EXCEPT !.pc = "loop", !.deps = deps]]
    /\ UNCHANGED <<rules_map, tsdb, window, call, visited, outcome, queries,
                   derived, epc>>
    /\ UNCHANGED notEngine

\* A loop that moves past a dependency without resolving it.
RecomputeSkipDep ==
    /\ epc = "running"
    /\ Top.fn = "recompute_rule_for_timeframe" /\ Top.pc = "loop"
    /\ Top.i <= Len(Top.deps)
    /\ stack' = [stack EXCEPT ![Len(stack)] =
                    [@ EXCEPT !.i = @ + 1,
                              !.dep_dfs = (Top.deps[Top.i] :>
                                  EmptyDataFrame(Top.deps[Top.i])) @@ @]]
    /\ UNCHANGED <<rules_map, tsdb, window, call, visited, outcome, queries,
                   derived, epc>>
    /\ UNCHANGED notEngine

\* recompute_rule_for_timeframe, line 68: resolve the next dependency.
RecomputeCallDep ==
    /\ epc = "running"
    /\ Top.fn = "recompute_rule_for_timeframe" /\ Top.pc = "loop"
    /\ Top.i <= Len(Top.deps)
    /\ DoCall("recompute_rule_for_timeframe", Top.deps[Top.i])
    /\ UNCHANGED <<rules_map, tsdb, window, call, visited, queries, derived>>
    /\ UNCHANGED notEngine

\* The rule's table from the last dependency's.
DeriveFromLast(rules, rule_name, deps, dep_dfs) ==
    LET last  == deps[Len(deps)]
        df    == DropColumn(CopyColumn(dep_dfs[last], rule_name, last), last)
        match == ScalarDivisor(ExprOf(rules, rule_name))
        pf    == ParseFloat(match.text)
    IN IF ~match.found THEN [ok |-> TRUE, df |-> df]
       ELSE IF ~pf.ok THEN [ok |-> FALSE, df |-> df]
       ELSE [ok |-> TRUE, df |-> DivideColumn(df, rule_name, pf.value)]

\* Lines 73-84: the rule's table from the first dependency's.
Derive(rules, rule_name, deps, dep_dfs) ==
    LET expr  == ExprOf(rules, rule_name)
        df    == DropColumn(CopyColumn(dep_dfs[deps[1]], rule_name, deps[1]),
                            deps[1])
        match == ScalarDivisor(expr)
        pf    == ParseFloat(match.text)
    IN IF ~match.found THEN [ok |-> TRUE, df |-> df]
       ELSE IF ~pf.ok THEN [ok |-> FALSE, df |-> df]
       ELSE [ok |-> TRUE, df |-> DivideColumn(df, rule_name, pf.value)]

\* recompute_rule_for_timeframe, lines 70-84.
RecomputeDerive ==
    /\ epc = "running"
    /\ Top.fn = "recompute_rule_for_timeframe" /\ Top.pc = "loop"
    /\ Top.i > Len(Top.deps)
    /\ LET d == Derive(rules_map, Top.rule, Top.deps, Top.dep_dfs)
       IN IF d.ok
          THEN DoReturn(d.df) /\ derived' = derived \cup {Top.rule}
          ELSE DoRaise("ValueError") /\ UNCHANGED derived
    /\ UNCHANGED <<rules_map, tsdb, window, call, visited, queries>>
    /\ UNCHANGED notEngine

\* backfill_rule_recursive, lines 111-114: the cycle guard.
RecursiveVisited ==
    /\ epc = "running"
    /\ Top.fn = "backfill_rule_recursive" /\ Top.pc = "enter"
    /\ Top.rule \in visited
    /\ DoReturn(EmptyResult)
    /\ UNCHANGED <<rules_map, tsdb, window, call, visited, queries, derived>>
    /\ UNCHANGED notEngine

\* backfill_rule_recursive, lines 116-118: no such rule.
RecursiveUnknown ==
    /\ epc = "running"
    /\ Top.fn = "backfill_rule_recursive" /\ Top.pc = "enter"
    /\ Top.rule \notin visited
    /\ ~HasRule(rules_map, Top.rule)
    /\ DoReturn(EmptyResult)
    /\ UNCHANGED <<rules_map, tsdb, window, call, visited, queries, derived>>
    /\ UNCHANGED notEngine

\* backfill_rule_recursive, lines 120-125.
RecursiveEnter ==
    /\ epc = "running"
    /\ Top.fn = "backfill_rule_recursive" /\ Top.pc = "enter"
    /\ Top.rule \notin visited
    /\ HasRule(rules_map, Top.rule)
    /\ visited' = visited \cup {Top.rule}
    /\ stack' = [stack EXCEPT ![Len(stack)] =
                    [@ EXCEPT !.pc = "loop",
                              !.deps = DependencyRules(rules_map,
                                          ExprOf(rules_map, Top.rule),
                                          Top.rule)]]
    /\ UNCHANGED <<rules_map, tsdb, window, call, outcome, queries, derived,
                   epc>>
    /\ UNCHANGED notEngine

\* backfill_rule_recursive, lines 128-130.
RecursiveCallDep ==
    /\ epc = "running"
    /\ Top.fn = "backfill_rule_recursive" /\ Top.pc = "loop"
    /\ Top.i <= Len(Top.deps)
    /\ DoCall("backfill_rule_recursive", Top.deps[Top.i])
    /\ UNCHANGED <<rules_map, tsdb, window, call, visited, queries, derived>>
    /\ UNCHANGED notEngine

\* backfill_rule_recursive, lines 133-135.
RecursiveBackfillRule ==
    /\ epc = "running"
    /\ Top.fn = "backfill_rule_recursive" /\ Top.pc = "loop"
    /\ Top.i > Len(Top.deps)
    /\ LET res == BackfillRule(Top.rule)
       IN IF res.kind = "raise"
          THEN DoRaise(res.exc) /\ UNCHANGED derived
          ELSE DoReturn(res.value) /\ derived' = derived \cup {Top.rule}
    /\ UNCHANGED <<rules_map, tsdb, window, call, visited, queries>>
    /\ UNCHANGED notEngine

InitBackfill ==
    /\ rules_map \in RuleDocs
    /\ tsdb \in Stores
    /\ window \in Windows
    /\ call = NoCall
    /\ stack = <<>>
    /\ visited = {}
    /\ outcome = NoOutcome
    /\ queries = <<>>
    /\ derived = {}
    /\ epc = "idle"
    /\ MergeParked /\ ChunkParked /\ RunParked /\ CsvParked /\ PureParked

NextBackfill ==
    \/ \E fn \in EntryPoints :
         \E rule \in Range(RuleNames(rules_map)) \cup {no_rule} :
            Invoke(fn, rule)
    \/ RecomputeUnknown
    \/ RecomputeRaw
    \/ RecomputeDeps
    \/ RecomputeCallDep
    \/ RecomputeDerive
    \/ RecursiveVisited
    \/ RecursiveUnknown
    \/ RecursiveEnter
    \/ RecursiveCallDep
    \/ RecursiveBackfillRule

SpecBackfill == InitBackfill /\ [][NextBackfill]_vars


---------------------------------------------------------------------------
(* Properties of the backfill engine.                                      *)

\* A result without data: no series, no rows, or only zero values.
IsEmptyOrZero(value) ==
    IF value.type = "dict" THEN value.result = <<>>
    ELSE \A r \in DOMAIN value.rows :
            \A c \in DOMAIN r.vals : r.vals[c] = Zero

\* The outermost call asked for a rule that lies on a dependency cycle.
OnCycle == rules_map \in CyclicDocs /\ HasRule(rules_map, call.rule)

\* C1: for a rule mapping with a dependency cycle (a -> b -> a, or a rule
\* that mentions its own name), resolving a rule of the cycle with an
\* initially empty visited set, through either entry point of the engine,
\* ends by returning an empty or zero result.
C1_CycleGuardReturnsEmpty ==
    (epc = "done" /\ OnCycle)
        => (outcome.kind = "return" /\ IsEmptyOrZero(outcome.value))

\* The same for backfill_rule_recursive alone, and with a raise counted as
\* an end: the visited set stops the recursion below the interpreter's
\* limit.
RecursiveNeverOverflows ==
    (epc = "done" /\ call.fn = "backfill_rule_recursive")
        => outcome.exc # "RecursionError"

\* The table C2 expects: one row per raw series with samples, its
\* last sample divided by 3600, in a column named after the rule.
RECURSIVE ExpectedRows(_, _, _)
ExpectedRows(series, column_name, divisor) ==
    IF series = <<>> THEN EmptyBag
    ELSE LET r == Head(series)
             rest == ExpectedRows(Tail(series), column_name, divisor)
         IN IF r.values = <<>> THEN rest
            ELSE SetToBag({Row(LabelOf(r.metric, "project"),
                               LabelOf(r.metric, "department"),
                               column_name :>
                                 FloatDiv(r.values[Len(r.values)][2],
                                          Float(divisor)))})
                 (+) rest

HasSamples(series) == \E i \in DOMAIN series : series[i].values # <<>>

\* The backend stores no series for gpu_hours and nonzero series for
\* raw_gpu_seconds, answers every query, and gpu_hours has been resolved.
GpuHoursResolved ==
    /\ epc = "done"
    /\ rules_map = DocGpu
    /\ call.rule = gpu_hours
    /\ gpu_hours \notin DOMAIN tsdb
    /\ HasSamples(tsdb[raw_gpu_seconds])
    /\ outcome.exc # "RequestException"

\* C2: with the rule gpu_hours = raw_gpu_seconds / 3600, no stored series
\* for gpu_hours and stored series for raw_gpu_seconds, resolving gpu_hours
\* returns one row per group key of the raw series holding the raw value
\* divided by 3600.
C2_GpuHoursIsRawDividedBy3600 ==
    GpuHoursResolved
        => /\ outcome.kind = "return"
           /\ outcome.value.type = "DataFrame"
           /\ outcome.value.columns = <<gpu_hours>>
           /\ outcome.value.rows =
                 ExpectedRows(tsdb[raw_gpu_seconds], gpu_hours, 3600)

\* C2 as recompute_rule_for_timeframe alone meets it.
RecomputeGpuHoursIsRawDividedBy3600 ==
    (GpuHoursResolved /\ call.fn = "recompute_rule_for_timeframe")
        => /\ outcome.kind = "return"
           /\ outcome.value.type = "DataFrame"
           /\ outcome.value.columns = <<gpu_hours>>
           /\ outcome.value.rows =
                 ExpectedRows(tsdb[raw_gpu_seconds], gpu_hours, 3600)


\* recompute_rule_for_timeframe has no guard: on a cycle it recurses to the
\* interpreter's limit.  (Violated: see C1.)
RecomputeNeverOverflows ==
    (epc = "done" /\ call.fn = "recompute_rule_for_timeframe")
        => outcome.exc # "RecursionError"


\* The rules an entry point resolves before it derives `rule`: line 57
\* for recompute_rule_for_timeframe, lines 124-125 for
\* backfill_rule_recursive.
DepsOf(rules, fn, rule) ==
    IF ~HasRule(rules, rule) THEN {}
    ELSE IF fn = "recompute_rule_for_timeframe"
    THEN Range(FindDependencies(rules, ExprOf(rules, rule)))
    ELSE Range(DependencyRules(rules, ExprOf(rules, rule), rule))

RECURSIVE Reach(_, _, _, _)
Reach(rules, fn, S, n) ==
    IF n = 0 THEN S
    ELSE Reach(rules, fn, S \cup UNION {DepsOf(rules, fn, d) : d \in S}, n - 1)

\* The rules `rule` depends on, directly or through other rules.
TransitiveDeps(rules, fn, rule) ==
    Reach(rules, fn, DepsOf(rules, fn, rule), Len(rules))

\* No rule of the mapping depends on itself.
Acyclic(rules, fn) ==
    \A r \in Range(RuleNames(rules)) : r \notin TransitiveDeps(rules, fn, r)

\* The innermost call has finished its loop over the dependencies: its
\* next step derives the rule's own value (lines 73-84, lines 133-134).
AtDerive ==
    /\ epc = "running"
    /\ Top.pc = "loop"
    /\ Top.i > Len(Top.deps)

AllDepsDerived == TransitiveDeps(rules_map, Top.fn, Top.rule) \subseteq derived

\* C11 as stated: whenever the engine is about to derive a rule's own
\* value, every rule it depends on, directly or transitively, has completed
\* its own resolution.
C11_DepthFirstOrder == AtDerive => AllDepsDerived

\* C11, amended: in a rule mapping without dependency cycles, whenever the
\* engine is about to derive a rule's own value, every rule it depends on,
\* directly or transitively, has completed its own resolution.
C11_DepthFirstOrderAcyclic ==
    (AtDerive /\ Acyclic(rules_map, Top.fn)) => AllDepsDerived

\* a = b / 2 is about to be derived and b = r has been resolved.
C11_Witness ==
    /\ AtDerive
    /\ rules_map = DocChain
    /\ Top.rule = rule_a
    /\ rule_b \in derived

\* The outermost call asks for a rule the mapping does not hold.
UnknownRuleCall == call # NoCall /\ ~HasRule(rules_map, call.rule)

\* A result without series, a table without rows.
IsEmptyValue(value) ==
    IF value.type = "dict" THEN value.result = <<>> ELSE IsEmpty(value)

\* C20: resolving a rule name that the rule mapping does not hold, through
\* either entry point, returns an empty result without raising, issues no
\* range query, and leaves the rule mapping and the visited set as they
\* were.
C20_UnknownRuleIsEmpty ==
    /\ [](UnknownRuleCall =>
            /\ queries = <<>>
            /\ visited = {}
            /\ epc = "done" => (/\ outcome.kind = "return"
                                /\ IsEmptyValue(outcome.value)))
    /\ [][UnknownRuleCall => rules_map' = rules_map]_vars

\* backfill_rule_recursive returned for a rule the mapping does not hold.
C20_Witness ==
    /\ epc = "done"
    /\ UnknownRuleCall
    /\ call.fn = "backfill_rule_recursive"
    /\ outcome.kind = "return"

---------------------------------------------------------------------------
(* The merge of a panel's per-expression tables, report.py lines 108-129.   *)

\* Most query expressions of one panel in the model.
MaxExprs == 3

col_X == <<"X">>
col_Y == <<"Y">>

OneRow(project, department, column, n) ==
    DataFrame(<<column>>,
              SetToBag({Row(project, department, column :> Float(n))}))

\* [{project: p1, department: d1, X: 5}]
TableX5 == OneRow(p1, d1, col_X, 5)
\* [{project: p1, department: d1, Y: 7}]
TableY7 == OneRow(p1, d1, col_Y, 7)
\* [{project: p2, department: d2, X: 3}]
TableX3 == OneRow(p2, d2, col_X, 3)
\* The same key from two chunks of one expression.
TableY7Twice == Concat(<<TableY7, TableY7>>)
\* Two keys in one table.
TableX5X3 == Concat(<<TableX5, TableX3>>)

\* The per-expression tables of the model.
InputTables ==
    {TableX5, TableY7, TableX3, TableY7Twice, TableX5X3,
     EmptyDataFrame(col_X), EmptyDataFrame(col_Y)}

panel_title == <<"G", "P", "U", " ", "1">>

\* os.path.join("/tmp", f"{safe_title}.csv")
CsvPath(title) ==
    <<"/", "t", "m", "p", "/">> \o SafeTitle(title)
        \o <<".", "c", "s", "v">>

\* Lines 108-111 for the next query expression of the panel.
MergeExpr ==
    /\ mpc = "merging"
    /\ expr_dfs # <<>>
    /\ panel_df' = MergeInto(panel_df, Head(expr_dfs))
    /\ done_dfs' = Append(done_dfs, Head(expr_dfs))
    /\ expr_dfs' = Tail(expr_dfs)
    /\ UNCHANGED <<csv_files, mpc>>
    /\ UNCHANGED notMerge

\* Lines 113-127: the panel has data and its CSV is written.
SaveCsv ==
    /\ mpc = "merging"
    /\ expr_dfs = <<>>
    /\ HasData(panel_df)
    /\ panel_df' = CsvTable(panel_df)
    /\ csv_files' = Append(csv_files, [path |-> CsvPath(panel_title),
                                        table |-> CsvTable(panel_df)])
    /\ mpc' = "saved"
    /\ UNCHANGED <<expr_dfs, done_dfs>>
    /\ UNCHANGED notMerge

\* Lines 128-129: no data for the panel, no CSV.
SkipCsv ==
    /\ mpc = "merging"
    /\ expr_dfs = <<>>
    /\ ~HasData(panel_df)
    /\ mpc' = "nodata"
    /\ UNCHANGED <<expr_dfs, done_dfs, panel_df, csv_files>>
    /\ UNCHANGED notMerge

\* The sequences over S of length 1..n.
SeqsUpTo(S, n) == UNION {[1..k -> S] : k \in 1..n}

InitMerge ==
    /\ expr_dfs \in SeqsUpTo(InputTables, MaxExprs)
    /\ done_dfs = <<>>
    /\ panel_df = NoneDf
    /\ csv_files = <<>>
    /\ mpc = "merging"
    /\ EngineParked /\ ChunkParked /\ RunParked /\ CsvParked /\ PureParked

NextMerge == MergeExpr \/ SaveCsv \/ SkipCsv

SpecMerge == InitMerge /\ [][NextMerge]_vars


---------------------------------------------------------------------------
(* Properties of the merge.                                                *)

\* The one row of a frame with key k.
RowWithKey(df, k) == CHOOSE r \in DOMAIN df.rows : KeyOf(r) = k

\* The first two per-expression tables of the panel have been merged.
TwoMerged == mpc = "merging" /\ Len(done_dfs) = 2

\* C3: merging two per-expression tables on (project, department) keeps
\* every key of either table, gives a key that occurs at most once in each
\* table exactly one row, and, for tables with different metric columns,
\* that row holds the values of both; {p1,d1,X:5} and {p1,d1,Y:7} merge to
\* the single row {p1,d1,X:5,Y:7}.
C3_MergeSharedKey ==
    TwoMerged =>
        LET a == done_dfs[1]
            b == done_dfs[2]
        IN /\ Keys(panel_df) = Keys(a) \cup Keys(b)
           /\ \A k \in Keys(a) \cup Keys(b) :
                 (KeyCount(a, k) <= 1 /\ KeyCount(b, k) <= 1)
                    => KeyCount(panel_df, k) = 1
           /\ \A k \in Keys(a) \cap Keys(b) :
                 (/\ KeyCount(a, k) = 1 /\ KeyCount(b, k) = 1
                  /\ Range(a.columns) \cap Range(b.columns) = {})
                    => RowWithKey(panel_df, k).vals =
                          RowWithKey(a, k).vals @@ RowWithKey(b, k).vals
           /\ (a = TableX5 /\ b = TableY7)
                 => panel_df =
                       DataFrame(<<col_X, col_Y>>,
                                 SetToBag({Row(p1, d1,
                                               (col_X :> Float(5))
                                               @@ (col_Y :> Float(7)))}))

\* {p1,d1,X:5} and {p1,d1,Y:7} have been merged into one row.
C3_Witness ==
    /\ TwoMerged
    /\ done_dfs = <<TableX5, TableY7>>
    /\ NRows(panel_df) = 1

\* C4: after the tables {p1,d1,X:5}, {p1,d1,Y:7} and {p2,d2,X:3} are merged
\* and saved, the panel table has the columns X and Y and exactly the rows
\* p1/d1: X=5, Y=7 and p2/d2: X=3, Y=0.
C4_MergeZeroFill ==
    (mpc = "saved" /\ done_dfs = <<TableX5, TableY7, TableX3>>)
        => panel_df =
              DataFrame(<<col_X, col_Y>>,
                        SetToBag({Row(p1, d1, (col_X :> Float(5))
                                              @@ (col_Y :> Float(7))),
                                  Row(p2, d2, (col_X :> Float(3))
                                              @@ (col_Y :> Zero))}))

\* The part of C4 the code meets: a saved panel table holds no NaN.
SavedTableHasNoNaN ==
    mpc = "saved"
        => \A r \in DOMAIN panel_df.rows :
              \A c \in DOMAIN r.vals : ~IsNaN(r.vals[c])

---------------------------------------------------------------------------
(* A report run: process_report of report/report.py.  The functions of    *)
(* grafana_utils are taken at the contract of their call sites: the clone *)
(* returns temp_uid, table_panels, GRAFANA_VARS and the dashboard JSON or *)
(* raises.  GRAFANA_VARS maps names to strings.  The step of a range      *)
(* query does not change what the modelled backend answers; left out.    *)

\* max_workers: int = 4
DefaultMaxWorkers == 4

\* chunk_end = min(chunk_start + chunk_delta, end_dt)
ChunkEndUnclamped(cs, chunk_delta, end) == cs + chunk_delta

ChunkEnd(cs, chunk_delta, end) ==
    IF cs + chunk_delta < end THEN cs + chunk_delta ELSE end

\* The loop of lines 55-60 from chunk_start cs on, for a positive delta.
RECURSIVE ChunkLoop(_, _, _)
ChunkLoop(cs, chunk_delta, end) ==
    IF cs < end
    THEN <<<<cs, ChunkEnd(cs, chunk_delta, end)>>>>
         \o ChunkLoop(ChunkEnd(cs, chunk_delta, end), chunk_delta, end)
    ELSE <<>>

ChunkRanges(start, end, hours) == ChunkLoop(start, hours, end)

\* Lines 72-76: the first rule name that contains the lowered metric name.
MatchingRule(rules, name) ==
    LET key  == Replace(Lower(name), <<" ">>, <<"_">>)
        hits == {i \in DOMAIN rules :
                    IsSubstring(key, Lower(rules[i].record))}
    IN IF hits = {} THEN [found |-> FALSE, rule |-> <<>>]
       ELSE [found |-> TRUE,
             rule |-> rules[CHOOSE i \in hits : \A k \in hits : i <= k].record]

\* Inputs of a run.
ExprGh == <<"g", "h", "{", "}">>
ExprRs == <<"r", "s", "{", "$", "p", "}", "[", "$", "_", "_", "r", "a", "n", "g", "e", "]">>
ExprZz == <<"z", "z", "{", "}">>

Panel(title, type, targets) ==
    [title |-> title, type |-> type, queries |-> targets]

Variable(name, value) == [name |-> name, value |-> value]

\* Two tables around a graph; the second table asks for gh again.
DashGpu ==
    [vars |-> <<Variable(<<"p">>, <<>>)>>,
     panels |-> <<Panel(panel_title, "table", <<ExprGh, ExprRs>>),
                  Panel(<<"g">>, "graph", <<ExprRs>>),
                  Panel(<<"T", "2">>, "table", <<ExprGh>>)>>]

\* A table of a metric without series and without rule, and one with data.
DashIdle ==
    [vars |-> <<>>,
     panels |-> <<Panel(<<"Z">>, "table", <<ExprZz>>),
                  Panel(<<"R">>, "table", <<ExprRs>>)>>]

Dashboards == {DashGpu, DashIdle}

UrlGood == <<"/", "d", "/", "u", "1", "/", "x">>
UrlBad == <<"/", "d", "/", "u", "1">>
DashboardUrls == {UrlGood, UrlBad}

Recipient == <<"a", "@", "b">>

\* start_dt, end_dt and chunk_hours: no, two and three chunks.
Schedule(start, end, hours) == <<start, end, hours>>
Schedules == {Schedule(0, 0, 24), Schedule(0, 30, 24), Schedule(6, 60, 24)}

WorkerCounts == {1, 2, DefaultMaxWorkers}

\* time.time() at the clone
clone_time == 7

\* temp_uid = f"{dashboard_uid}-temp-{int(time.time())}"
TempUid(uid) == uid \o <<"-", "t", "e", "m", "p", "-">> \o NatString(clone_time)

\* walk_panels over a dashboard without nested panels
TablePanels(dash) ==
    LET tables == SelectSeq(dash.panels, LAMBDA p : p.type = "table")
    IN [i \in DOMAIN tables |->
           [title |-> tables[i].title, queries |-> tables[i].queries]]

\* A log record.
Logged(level, at, p, e, c) ==
    [level |-> level, at |-> at, panel |-> p, expr |-> e, chunk |-> c]

NoKey == <<<<>>, 0, 0>>

\* A chunk task as executor.map submits it.
Future(range, p, e) ==
    [range |-> range, panel |-> p, expr |-> e, st |-> "pending",
     df |-> NoneDf, nodata |-> FALSE, failed |-> "", key |-> NoKey]

\* The chunk tasks a worker is executing.
InFlight ==
    {i \in DOMAIN futures : futures[i].st \in {"running", "backfilling"}}

\* ThreadPoolExecutor(max_workers): a free worker exists.
WorkerAlwaysAvailable == TRUE

WorkerAvailable == Cardinality(InFlight) < max_workers

\* The variables no step of a run changes.
runInputs ==
    <<dashboard_url, dashboard, email_to, max_workers, rules_map, tsdb,
      start_dt, end_dt, chunk_hours>>

runUnused ==
    <<window, call, stack, visited, outcome, queries, derived, epc, expr_dfs,
      done_dfs, mpc, chunk_start, cpc, csvVars, pureVars>>

runFixed == <<runInputs, runUnused>>

cloneVars == <<temp_uid, table_panels, grafana_vars>>
exprVars == <<expr_resolved, metric_name, chunk_ranges>>
outVars == <<csv_files, pdf_path, emails, delete_calls>>

\* except Exception (lines 155-156): the exception of a step ends the try
\* block and is logged.
Abort(step) ==
    /\ pc' = "finally"
    /\ abort' = step
    /\ errors' = errors \cup {Logged("error", step, 0, 0, 0)}

\* A chunk task whose exception leaves query_chunk: executor.map raises it
\* in process_report.
ChunkUncaught(i, at) ==
    /\ futures' = [futures EXCEPT ![i] = [@ EXCEPT !.st = "done",
                                                    !.failed = at]]
    /\ Abort(at)

\* except Exception (lines 94-96): the chunk yields an empty table.
ChunkCaught(i, at) ==
    /\ futures' = [futures EXCEPT ![i] =
                      [@ EXCEPT !.st = "done", !.failed = at,
                                !.df = EmptyDataFrame(metric_name)]]
    /\ errors' = errors \cup {Logged("error", at, pi, ei, i)}
    /\ UNCHANGED <<pc, abort>>

\* Lines 31-41: the uid of the URL, the clone, the window.
RunClone ==
    /\ pc = "start"
    /\ LET uid == ExtractUidFromUrl(dashboard_url)
       IN \/ /\ ~uid.ok
             /\ Abort("extract_uid_from_url")
             /\ UNCHANGED <<cloneVars, pi>>
          \/ /\ uid.ok
             /\ Abort("clone_dashboard_without_panels")
             /\ UNCHANGED <<cloneVars, pi>>
          \/ /\ uid.ok
             /\ temp_uid' = TempUid(uid.uid)
             /\ table_panels' = TablePanels(dashboard)
             /\ grafana_vars' = dashboard.vars
             /\ pc' = "panel"
             /\ pi' = 1
             /\ UNCHANGED <<abort, errors>>
    /\ UNCHANGED <<ei, exprVars, futures, backfill_cache, engine_calls,
                   raised, processed, panel_df, outVars>>
    /\ UNCHANGED runFixed

\* Lines 44-46: the next panel, or line 131 after the last.
RunNextPanel ==
    /\ pc = "panel"
    /\ IF pi <= Len(table_panels)
       THEN /\ panel_df' = NoneDf
            /\ ei' = 1
            /\ pc' = "expr"
       ELSE /\ pc' = "render"
            /\ UNCHANGED <<panel_df, ei>>
    /\ UNCHANGED <<cloneVars, pi, exprVars, futures, backfill_cache,
                   engine_calls, errors, abort, raised, processed, outVars>>
    /\ UNCHANGED runFixed

\* Lines 48-60 and 99-100: the expression is resolved, the window is cut
\* into chunks and the chunks are handed to the executor.
RunBeginExpr ==
    /\ pc = "expr"
    /\ ei <= Len(table_panels[pi].queries)
    /\ LET resolved == ResolveGrafanaVars(table_panels[pi].queries[ei],
                                          grafana_vars, start_dt, end_dt)
           ranges   == ChunkRanges(start_dt, end_dt, chunk_hours)
       IN /\ expr_resolved' = resolved
          /\ metric_name' = ExtractMetric(resolved)
          /\ chunk_ranges' = ranges
          /\ futures' = [i \in DOMAIN ranges |-> Future(ranges[i], pi, ei)]
    /\ pc' = "chunks"
    /\ UNCHANGED <<cloneVars, pi, ei, backfill_cache, engine_calls, errors,
                   abort, raised, processed, panel_df, outVars>>
    /\ UNCHANGED runFixed

\* A worker of the pool takes the oldest waiting chunk.
RunStartChunk(i) ==
    /\ pc = "chunks"
    /\ futures[i].st = "pending"
    /\ \A j \in 1..(i - 1) : futures[j].st # "pending"
    /\ WorkerAvailable
    /\ futures' = [futures EXCEPT ![i] = [@ EXCEPT !.st = "running"]]
    /\ UNCHANGED <<pc, cloneVars, pi, ei, exprVars, backfill_cache,
                   engine_calls, errors, abort, raised, processed, panel_df,
                   outVars>>
    /\ UNCHANGED runFixed

\* query_chunk, lines 64-96 up to the call of the engine.
RunQueryChunk(i) ==
    /\ pc = "chunks"
    /\ futures[i].st = "running"
    /\ \/ LET results == PromEval(tsdb, expr_resolved)
              m       == MatchingRule(rules_map, metric_name)
              key     == <<m.rule, futures[i].range[1], futures[i].range[2]>>
          IN /\ futures' =
                   [futures EXCEPT ![i] =
                       IF results.result # <<>>
                       THEN [@ EXCEPT !.st = "done",
                                      !.df = PrometheusResultToDf(
                                                results, metric_name)]
                       ELSE IF ~m.found
                       THEN [@ EXCEPT !.st = "done", !.nodata = TRUE,
                                      !.df = EmptyDataFrame(metric_name)]
                       ELSE IF key \in DOMAIN backfill_cache
                       THEN [@ EXCEPT !.st = "done", !.nodata = TRUE,
                                      !.key = key,
                                      !.df = backfill_cache[key]]
                       ELSE [@ EXCEPT !.st = "backfilling",
                                      !.nodata = TRUE, !.key = key]]
             /\ engine_calls' =
                   IF /\ results.result = <<>>
                      /\ m.found
                      /\ key \notin DOMAIN backfill_cache
                   THEN engine_calls (+) SetToBag({key})
                   ELSE engine_calls
             /\ errors' =
                   IF results.result = <<>> /\ ~m.found
                   THEN errors \cup {Logged("warning", "query_chunk",
                                            pi, ei, i)}
                   ELSE errors
             /\ UNCHANGED <<pc, abort>>
       \/ /\ ChunkCaught(i, "query_prometheus_range")
          /\ UNCHANGED engine_calls
    /\ UNCHANGED <<cloneVars, pi, ei, exprVars, backfill_cache, raised,
                   processed, panel_df, outVars>>
    /\ UNCHANGED runFixed

\* query_chunk, lines 85-87: the engine's answer is cached and returned, or
\* its exception is caught at line 94.
RunBackfillChunk(i) ==
    /\ pc = "chunks"
    /\ futures[i].st = "backfilling"
    /\ LET res == BackfillRuleRecursive(rules_map, futures[i].key[1], {}, 1)
       IN IF res.kind = "raise"
          THEN /\ ChunkCaught(i, "backfill_rule_recursive")
               /\ UNCHANGED backfill_cache
          ELSE /\ backfill_cache' =
                     (futures[i].key :> res.value) @@ backfill_cache
               /\ futures' = [futures EXCEPT ![i] =
                                 [@ EXCEPT !.st = "done", !.df = res.value]]
               /\ UNCHANGED <<pc, abort, errors>>
    /\ UNCHANGED <<cloneVars, pi, ei, exprVars, engine_calls, raised,
                   processed, panel_df, outVars>>
    /\ UNCHANGED runFixed

\* Every chunk task of the expression has ended.
AllChunksDone == \A i \in DOMAIN futures : futures[i].st = "done"

\* Lines 100-111: executor.map has every result; the chunk tables are
\* concatenated and merged into the panel table.  pd.concat raises
\* TypeError for a result that is not a table.
RunExprDone ==
    /\ pc = "chunks"
    /\ AllChunksDone
    /\ LET chunk_dfs == [i \in DOMAIN futures |-> futures[i].df]
       IN IF \E i \in DOMAIN chunk_dfs : chunk_dfs[i].type # "DataFrame"
          THEN /\ Abort("pd.concat")
               /\ UNCHANGED <<panel_df, ei, processed>>
          ELSE /\ panel_df' =
                     MergeInto(panel_df,
                               IF chunk_dfs # <<>> THEN Concat(chunk_dfs)
                               ELSE EmptyDataFrame(metric_name))
               /\ processed' = processed \cup {<<pi, ei>>}
               /\ ei' = ei + 1
               /\ pc' = "expr"
               /\ UNCHANGED <<abort, errors>>
    /\ UNCHANGED <<cloneVars, pi, exprVars, futures, backfill_cache,
                   engine_calls, raised, outVars>>
    /\ UNCHANGED runFixed

\* Lines 113-129: the panel's table is written, if it has rows.  Writing
\* the file may fail.
RunSavePanel ==
    /\ pc = "expr"
    /\ ei > Len(table_panels[pi].queries)
    /\ \/ /\ HasData(panel_df)
          /\ panel_df' = CsvTable(panel_df)
          /\ csv_files' =
                Append(csv_files,
                       [path |-> CsvPath(table_panels[pi].title),
                        table |-> CsvTable(panel_df)])
          /\ pi' = pi + 1
          /\ pc' = "panel"
          /\ UNCHANGED <<abort, errors>>
       \/ /\ HasData(panel_df)
          /\ Abort("to_csv")
          /\ panel_df' = CsvTable(panel_df)
          /\ UNCHANGED <<csv_files, pi>>
       \/ /\ ~HasData(panel_df)
          /\ errors' = errors \cup {Logged("warning", "no_data", pi, 0, 0)}
          /\ pi' = pi + 1
          /\ pc' = "panel"
          /\ UNCHANGED <<panel_df, csv_files, abort>>
    /\ UNCHANGED <<cloneVars, ei, exprVars, futures, backfill_cache,
                   engine_calls, raised, processed, pdf_path, emails,
                   delete_calls>>
    /\ UNCHANGED runFixed

\* Lines 131-144: the render request and the pages.
RunRender ==
    /\ pc = "render"
    /\ \/ /\ pc' = "pdf"
          /\ UNCHANGED <<abort, errors>>
       \/ Abort("render")
    /\ UNCHANGED <<cloneVars, pi, ei, exprVars, futures, backfill_cache,
                   engine_calls, raised, processed, panel_df, outVars>>
    /\ UNCHANGED runFixed

PdfPath(uid) == <<"/", "t", "m", "p", "/", "g", "r", "a", "f", "a", "n", "a", "_", "r", "e", "p", "o", "r", "t", "_">> \o uid \o <<".", "p", "d", "f">>

\* Lines 146-148: the PDF file.
RunGeneratePdf ==
    /\ pc = "pdf"
    /\ \/ /\ pdf_path' = PdfPath(temp_uid)
          /\ pc' = "email"
          /\ UNCHANGED <<abort, errors>>
       \/ /\ pdf_path' = PdfPath(temp_uid)
          /\ Abort("generate_pdf_from_pages")
    /\ UNCHANGED <<cloneVars, pi, ei, exprVars, futures, backfill_cache,
                   engine_calls, raised, processed, panel_df, csv_files,
                   emails, delete_calls>>
    /\ UNCHANGED runFixed

\* Lines 150-153: the e-mail, if a recipient was given.
RunEmail ==
    /\ pc = "email"
    /\ \/ /\ email_to = <<>>
          /\ pc' = "finally"
          /\ UNCHANGED <<emails, abort, errors>>
       \/ /\ email_to # <<>>
          /\ emails' = Append(emails,
                              [to |-> email_to, pdf |-> pdf_path,
                               csvs |-> [i \in DOMAIN csv_files |->
                                            csv_files[i].path]])
          /\ pc' = "finally"
          /\ UNCHANGED <<abort, errors>>
       \/ /\ email_to # <<>>
          /\ Abort("send_email")
          /\ UNCHANGED emails
    /\ UNCHANGED <<cloneVars, pi, ei, exprVars, futures, backfill_cache,
                   engine_calls, raised, processed, panel_df, csv_files,
                   pdf_path, delete_calls>>
    /\ UNCHANGED runFixed

\* Lines 158-160 with delete_dashboard of grafana_utils (46-53): the delete
\* request succeeds, or its failure is caught and logged.
RunFinally ==
    /\ pc = "finally"
    /\ IF temp_uid # <<>>
       THEN /\ delete_calls' = delete_calls + 1
            /\ \/ UNCHANGED errors
               \/ errors' = errors \cup
                               {Logged("warning", "delete_dashboard", 0, 0, 0)}
       ELSE UNCHANGED <<delete_calls, errors>>
    /\ pc' = "end"
    /\ UNCHANGED <<cloneVars, pi, ei, exprVars, futures, backfill_cache,
                   engine_calls, abort, raised, processed, panel_df,
                   csv_files, pdf_path, emails>>
    /\ UNCHANGED runFixed

Init ==
    /\ dashboard_url \in DashboardUrls
    /\ dashboard \in Dashboards
    /\ email_to \in {<<>>, Recipient}
    /\ max_workers \in WorkerCounts
    /\ \E s \in Schedules :
          start_dt = s[1] /\ end_dt = s[2] /\ chunk_hours = s[3]
    /\ rules_map = DocGpu
    /\ tsdb \in Stores
    /\ pc = "start"
    /\ temp_uid = <<>> /\ table_panels = <<>> /\ grafana_vars = <<>>
    /\ pi = 0 /\ ei = 0
    /\ expr_resolved = <<>> /\ metric_name = <<>> /\ chunk_ranges = <<>>
    /\ futures = <<>> /\ backfill_cache = <<>> /\ engine_calls = EmptyBag
    /\ errors = {} /\ abort = "" /\ raised = "" /\ processed = {}
    /\ panel_df = NoneDf /\ csv_files = <<>> /\ pdf_path = <<>>
    /\ emails = <<>> /\ delete_calls = 0
    /\ window = <<0, 0>> /\ call = [fn |-> "", rule |-> <<>>]
    /\ stack = <<>> /\ visited = {} /\ queries = <<>> /\ epc = "parked"
    /\ derived = {}
    /\ outcome = [kind |-> "none"]
    /\ expr_dfs = <<>> /\ done_dfs = <<>> /\ mpc = "parked"
    /\ chunk_start = 0 /\ cpc = "parked"
    /\ CsvParked /\ PureParked

Next ==
    \/ RunClone
    \/ RunNextPanel
    \/ RunBeginExpr
    \/ \E i \in DOMAIN futures : RunStartChunk(i)
    \/ \E i \in DOMAIN futures : RunQueryChunk(i)
    \/ \E i \in DOMAIN futures : RunBackfillChunk(i)
    \/ RunExprDone
    \/ RunSavePanel
    \/ RunRender
    \/ RunGeneratePdf
    \/ RunEmail
    \/ RunFinally

Spec == Init /\ [][Next]_vars

---------------------------------------------------------------------------
(* Properties of a report run.                                             *)

\* The steps of query_chunk that can fail.
ChunkSteps == {"query_prometheus_range", "backfill_rule_recursive"}

\* Every <<panel, expression>> pair of the cloned dashboard.
AllExpressions ==
    UNION {{<<p, e>> : e \in DOMAIN table_panels[p].queries} :
              p \in DOMAIN table_panels}

\* The run is past the tables: at the render request or later in the try
\* block.
PastTables == pc \in {"render", "pdf", "email"}

\* C5: a failure in a chunk of an expression (the query request or the
\* backfill path raises) is logged, the chunk contributes no rows, and the
\* failure never ends the run's try block: whenever the run arrives at the
\* render and PDF steps, every expression of every panel has been merged.
C5_ExpressionFailureIsolated ==
    /\ abort \notin ChunkSteps
    /\ \A i \in DOMAIN futures :
          futures[i].failed # ""
             => /\ futures[i].st = "done"
                /\ futures[i].df = EmptyDataFrame(metric_name)
                /\ Logged("error", futures[i].failed, futures[i].panel,
                          futures[i].expr, i) \in errors
    /\ PastTables => processed = AllExpressions

\* The run is at the render step after a failed query request and a failed
\* backfill, with every expression of more than one panel merged.
C5_Witness ==
    /\ pc = "render"
    /\ \E r \in errors : r.at = "query_prometheus_range"
    /\ \E r \in errors : r.at = "backfill_rule_recursive"
    /\ Len(table_panels) > 1
    /\ processed = AllExpressions

\* C7: a chunk whose query succeeded without series (the fallback was
\* taken) contributes a table with at least one row for the expression's
\* metric column, never an empty table.
C7_MissingDataZeroRow ==
    \A i \in DOMAIN futures :
        (futures[i].st = "done" /\ futures[i].nodata)
           => /\ futures[i].df.type = "DataFrame"
              /\ ~IsEmpty(futures[i].df)
              /\ futures[i].df.columns = <<metric_name>>

\* What the code gives such a chunk instead: always the empty table.
MissingDataYieldsEmptyTable ==
    \A i \in DOMAIN futures :
        (futures[i].st = "done" /\ futures[i].nodata)
           => futures[i].df = EmptyDataFrame(metric_name)

\* C8: within one run the engine is called at most once for a cache key
\* (rule, chunk start, chunk end); a later fallback to the same rule and
\* chunk is served from the cache.
C8_BackfillOncePerKey ==
    \A k \in BagToSet(engine_calls) : CopiesIn(k, engine_calls) <= 1

\* What the code does instead: the cache is never written.
BackfillCacheStaysEmpty == DOMAIN backfill_cache = {}

\* C10: at most max_workers chunk queries are in flight, every chunk query
\* in flight belongs to the expression in work, and none is in flight
\* outside the executor block of that expression, so the next expression
\* starts only after every chunk of the current one has ended.
C10_BoundedParallelism ==
    /\ Cardinality(InFlight) <= max_workers
    /\ \A i \in InFlight :
          pc = "chunks" /\ futures[i].panel = pi /\ futures[i].expr = ei
    /\ pc # "chunks" => AllChunksDone

\* The pool is full while a chunk waits.
C10_Witness ==
    /\ pc = "chunks"
    /\ Cardinality(InFlight) = max_workers
    /\ \E i \in DOMAIN futures : futures[i].st = "pending"

---------------------------------------------------------------------------
(* The chunk loop of process_report (report.py, lines 53-60), one step per *)
(* iteration, with times in whole hours.                                   *)

\* The latest hour of a window and the longest chunk, in hours.
MaxHour == 6
MaxChunkHours == 3

\* One iteration of the while loop.
ChunkStep ==
    /\ cpc = "loop"
    /\ chunk_start < end_dt
    /\ chunk_ranges' =
          Append(chunk_ranges,
                 <<chunk_start, ChunkEnd(chunk_start, chunk_hours, end_dt)>>)
    /\ chunk_start' = ChunkEnd(chunk_start, chunk_hours, end_dt)
    /\ UNCHANGED <<start_dt, end_dt, chunk_hours, cpc>>
    /\ UNCHANGED notChunk

\* The loop condition fails.
ChunkExit ==
    /\ cpc = "loop"
    /\ ~(chunk_start < end_dt)
    /\ cpc' = "done"
    /\ UNCHANGED <<start_dt, end_dt, chunk_hours, chunk_start, chunk_ranges>>
    /\ UNCHANGED notChunk

InitChunk ==
    /\ start_dt \in 0..MaxHour
    /\ end_dt \in 0..MaxHour
    /\ chunk_hours \in 1..MaxChunkHours
    /\ chunk_start = start_dt
    /\ chunk_ranges = <<>>
    /\ cpc = "loop"
    /\ EngineParked /\ RunParked /\ CsvParked /\ PureParked
    /\ expr_dfs = <<>> /\ done_dfs = <<>> /\ panel_df = <<>>
    /\ csv_files = <<>> /\ mpc = "parked"

NextChunk == ChunkStep \/ ChunkExit

SpecChunk == InitChunk /\ [][NextChunk]_vars

\* C9: for start < end the chunk ranges start at the window start, end at
\* the window end, are contiguous and pairwise non-overlapping, each is
\* non-empty and at most chunk_hours long, and all but the last are exactly
\* chunk_hours long; for start >= end there is no chunk.
C9_ChunkPartition ==
    cpc = "done" =>
        LET n == Len(chunk_ranges)
        IN IF start_dt < end_dt
           THEN /\ n >= 1
                /\ chunk_ranges[1][1] = start_dt
                /\ chunk_ranges[n][2] = end_dt
                /\ \A i \in 2..n : chunk_ranges[i][1] = chunk_ranges[i - 1][2]
                /\ \A i \in 1..n : \A j \in (i + 1)..n :
                      chunk_ranges[i][2] <= chunk_ranges[j][1]
                /\ \A i \in 1..n :
                      /\ chunk_ranges[i][1] < chunk_ranges[i][2]
                      /\ chunk_ranges[i][2] - chunk_ranges[i][1] <= chunk_hours
                /\ \A i \in 1..(n - 1) :
                      chunk_ranges[i][2] - chunk_ranges[i][1] = chunk_hours
           ELSE chunk_ranges = <<>>

\* A window cut into three chunks or more, the last one shorter.
C9_Witness ==
    /\ cpc = "done"
    /\ Len(chunk_ranges) >= 3
    /\ chunk_ranges[Len(chunk_ranges)][2] - chunk_ranges[Len(chunk_ranges)][1]
          < chunk_hours

\* The loop, step by step, builds the list a run takes as ChunkRanges.
ChunkLoopIsChunkRanges ==
    cpc = "done" => chunk_ranges = ChunkRanges(start_dt, end_dt, chunk_hours)

\* The call stack of the engine, step by step, ends as BackfillRuleRecursive
\* says.
EngineIsBackfillRuleRecursive ==
    (epc = "done" /\ call.fn = "backfill_rule_recursive")
        => LET r == BackfillRuleRecursive(rules_map, call.rule, {}, 1)
           IN /\ outcome = Outcome(r.kind, r.exc, r.value)
              /\ visited = r.visited

---------------------------------------------------------------------------
(* A report run of the HTTP service: process_report of report_api.py.      *)

\* retries=3
DefaultRetries == 3

ExcludedTitles == {<<"R", "e", "p", "o", "r", "t", " ", "B", "u", "t", "t", "o", "n">>, <<"A", "n", "o", "t", "h", "e", "r", " ", "p", "a", "n", "e", "l">>}

\* str.strip()
RECURSIVE LStrip(_)
LStrip(t) == IF t # <<>> /\ Head(t) \in SpaceChars THEN LStrip(Tail(t)) ELSE t

RECURSIVE RStrip(_)
RStrip(t) ==
    IF t # <<>> /\ t[Len(t)] \in SpaceChars
    THEN RStrip(SubSeq(t, 1, Len(t) - 1)) ELSE t

Strip(t) == RStrip(LStrip(t))

\* filter_panels (lines 76-89) over a dashboard without nested panels, for
\* the module's excluded_titles
FilterPanels(panels) ==
    SelectSeq(panels,
              LAMBDA q : Lower(Strip(q.title)) \notin
                            {Lower(t) : t \in ExcludedTitles})

\* re.sub(r'[^a-zA-Z0-9_-]', '-', text)
SanitizeUid(text) ==
    [i \in DOMAIN text |->
        IF text[i] \in Alnum \cup {"_", "-"} THEN text[i] ELSE "-"]

\* dashboard["uid"] of the clone (line 113)
ApiTempUid(uid) == SanitizeUid(uid \o <<"-", "t", "e", "m", "p", "-">> \o NatString(clone_time))

\* get_dashboard_panels (lines 164-183): the panels with an id and a gridPos
DashboardPanels(panels) ==
    LET placed == SelectSeq(panels, LAMBDA q : q.grid)
    IN [i \in DOMAIN placed |->
           [id |-> placed[i].id, title |-> placed[i].title,
            type |-> placed[i].type]]

ApiPanel(id, title, type, grid, targets, datasource) ==
    [id |-> id, title |-> title, type |-> type, grid |-> grid,
     targets |-> targets, datasource |-> datasource]

\* A table, the excluded button and a graph.
ApiDashOne ==
    [title |-> <<"D", "1">>,
     panels |-> <<ApiPanel(1, panel_title, "table", TRUE, <<ExprRs>>, "dict"),
                  ApiPanel(2, <<" ", "R", "e", "p", "o", "r", "t", " ", "b", "u", "t", "t", "o", "n", " ">>, "text", TRUE, <<>>, "dict"),
                  ApiPanel(3, <<"g">>, "graph", TRUE, <<ExprRs>>, "dict")>>]

\* Two tables, the first with a datasource given by uid, and a table
\* without targets.
ApiDashTwo ==
    [title |-> <<"D", "2">>,
     panels |-> <<ApiPanel(1, <<"A">>, "table", TRUE, <<ExprGh>>, "str"),
                  ApiPanel(2, <<"B">>, "table", TRUE, <<ExprRs>>, "dict"),
                  ApiPanel(3, <<"C">>, "table", TRUE, <<>>, "dict")>>]

ApiDashboards == {ApiDashOne, ApiDashTwo}

\* The variables no step of this run changes.
apiFixed ==
    <<dashboard_url, dashboard, email_to, engineVars, mergeVars, chunkVars,
      max_workers, grafana_vars, ei, expr_resolved, metric_name, futures,
      backfill_cache, engine_calls, processed, pureVars>>

\* Lines 427-432: the uid of the URL and the clone.
ApiClone ==
    /\ pc = "api_start"
    /\ LET uid == ExtractUidFromUrl(dashboard_url)
       IN \/ /\ ~uid.ok
             /\ Abort("extract_uid_from_url")
             /\ UNCHANGED temp_uid
          \/ /\ uid.ok
             /\ Abort("clone_dashboard_without_panels")
             /\ UNCHANGED temp_uid
          \/ /\ uid.ok
             /\ temp_uid' = ApiTempUid(uid.uid)
             /\ pc' = "api_panels"
             /\ UNCHANGED <<abort, errors>>
    /\ UNCHANGED <<table_panels, pi, raised, pdf_path, emails, delete_calls,
                   csvVars>>
    /\ UNCHANGED apiFixed

\* Line 435: the panels of the clone.
ApiGetPanels ==
    /\ pc = "api_panels"
    /\ \/ /\ table_panels' = DashboardPanels(FilterPanels(dashboard.panels))
          /\ pc' = "api_render"
          /\ UNCHANGED <<abort, errors>>
       \/ /\ Abort("get_dashboard_panels")
          /\ UNCHANGED table_panels
    /\ UNCHANGED <<temp_uid, pi, raised, pdf_path, emails, delete_calls,
                   csvVars>>
    /\ UNCHANGED apiFixed

\* Lines 437-449: the render request, the pages and the PDF file.
ApiRenderPdf ==
    /\ pc = "api_render"
    /\ \/ /\ pdf_path' = PdfPath(temp_uid)
          /\ pc' = "api_csv"
          /\ pi' = 1
          /\ UNCHANGED <<abort, errors>>
       \/ /\ Abort("render")
          /\ UNCHANGED <<pdf_path, pi>>
       \/ /\ Abort("generate_pdf_from_pages")
          /\ pdf_path' = PdfPath(temp_uid)
          /\ UNCHANGED pi
    /\ UNCHANGED <<temp_uid, table_panels, raised, emails, delete_calls,
                   csvVars>>
    /\ UNCHANGED apiFixed

\* The full definition of the panel in work.
PanelDef(id) ==
    LET defs == SelectSeq(FilterPanels(dashboard.panels), LAMBDA q : q.id = id)
    IN IF defs = <<>> THEN ApiPanel(0, <<>>, "", FALSE, <<>>, "") ELSE defs[1]

\* fetch_table_panel_csv returns v for the panel in work and
\* generate_csv_from_table_panels goes on to the next panel.
FetchReturns(v) ==
    /\ fetched' = Append(fetched, v)
    /\ pi' = pi + 1
    /\ attempt' = 0
    /\ pc' = "api_csv"

\* fetch_table_panel_csv, lines 253-306: up to the retry loop.
ApiFetchBegin ==
    /\ pc = "api_csv"
    /\ pi <= Len(table_panels)
    /\ posts' = Append(posts, 0)
    /\ \/ /\ table_panels[pi].type # "table"
          /\ FetchReturns("None")
          /\ UNCHANGED errors
       \/ /\ table_panels[pi].type = "table"
          /\ FetchReturns("None")
          /\ errors' = errors \cup
                          {Logged("error", "fetch_dashboard", pi, 0, 0)}
       \/ /\ table_panels[pi].type = "table"
          /\ PanelDef(table_panels[pi].id).targets = <<>>
          /\ FetchReturns("None")
          /\ errors' = errors \cup {Logged("warning", "no_queries", pi, 0, 0)}
       \/ /\ table_panels[pi].type = "table"
          /\ PanelDef(table_panels[pi].id).targets # <<>>
          /\ PanelDef(table_panels[pi].id).datasource = "str"
          /\ FetchReturns("None")
          /\ errors' = errors \cup
                          {Logged("error", "fetch_datasource", pi, 0, 0)}
       \/ /\ table_panels[pi].type = "table"
          /\ PanelDef(table_panels[pi].id).targets # <<>>
          /\ attempt' = 1
          /\ pc' = "api_post"
          /\ UNCHANGED <<fetched, pi, errors>>
    /\ UNCHANGED <<temp_uid, table_panels, abort, raised, pdf_path, emails,
                   delete_calls, sleeps, all_rows>>
    /\ UNCHANGED apiFixed

\* An attempt more than the loop of line 309 has.
AttemptsRemainInclusive(attempt_no, retries) == attempt_no <= retries

\* Line 346: attempt < retries
AttemptsRemain(attempt_no, retries) == attempt_no < retries

\* fetch_table_panel_csv, lines 309-355: one request of the retry loop, and
\* lines 364-388 for the CSV text it returns.
ApiQuery ==
    /\ pc = "api_post"
    /\ posts' = [posts EXCEPT ![pi] = @ + 1]
    /\ \/ \* rows: the text is returned and its rows are written
          /\ FetchReturns("csv")
          /\ all_rows' = Append(all_rows, table_panels[pi].id)
          /\ UNCHANGED <<sleeps, errors, abort>>
       \/ \* rows, and writing the file fails
          /\ fetched' = Append(fetched, "csv")
          /\ attempt' = 0
          /\ Abort("generate_csv_from_table_panels")
          /\ UNCHANGED <<pi, all_rows, sleeps>>
       \/ \* no rows
          /\ FetchReturns("None")
          /\ errors' = errors \cup {Logged("warning", "no_rows", pi, 0, 0)}
          /\ UNCHANGED <<all_rows, sleeps, abort>>
       \/ \* 404 with attempts left: sleep and try again
          /\ AttemptsRemain(attempt, DefaultRetries)
          /\ attempt' = attempt + 1
          /\ sleeps' = sleeps + 1
          /\ errors' = errors \cup
                          {Logged("warning", "not_ready", pi, 0, attempt)}
          /\ UNCHANGED <<fetched, pi, pc, all_rows, abort>>
       \/ \* 404 at the last attempt, or another HTTP error
          /\ FetchReturns("None")
          /\ errors' = errors \cup
                          {Logged("error", "http_error", pi, 0, attempt)}
          /\ UNCHANGED <<all_rows, sleeps, abort>>
       \/ \* any other exception
          /\ FetchReturns("None")
          /\ errors' = errors \cup
                          {Logged("error", "fetch_error", pi, 0, attempt)}
          /\ UNCHANGED <<all_rows, sleeps, abort>>
    /\ UNCHANGED <<temp_uid, table_panels, raised, pdf_path, emails,
                   delete_calls>>
    /\ UNCHANGED apiFixed

CsvFilePath(uid) == <<"/", "t", "m", "p", "/", "g", "r", "a", "f", "a", "n", "a", "_", "r", "e", "p", "o", "r", "t", "_">> \o uid \o <<".", "c", "s", "v">>

\* Lines 453-461: after the last panel, the e-mail if a recipient was
\* given; send_email logs and raises again.
ApiEmail ==
    /\ pc = "api_csv"
    /\ pi > Len(table_panels)
    /\ \/ /\ email_to = <<>>
          /\ pc' = "finally_api"
          /\ UNCHANGED <<emails, abort, errors>>
       \/ /\ email_to # <<>>
          /\ emails' = Append(emails,
                              [to |-> email_to, pdf |-> pdf_path,
                               csvs |-> IF all_rows # <<>>
                                        THEN <<CsvFilePath(temp_uid)>>
                                        ELSE <<>>])
          /\ pc' = "finally_api"
          /\ UNCHANGED <<abort, errors>>
       \/ /\ email_to # <<>>
          /\ Abort("send_email")
          /\ UNCHANGED emails
    /\ UNCHANGED <<temp_uid, table_panels, pi, raised, pdf_path,
                   delete_calls, csvVars>>
    /\ UNCHANGED apiFixed

\* The except block of lines 463-464 has run.
ApiExcept ==
    /\ pc = "finally"
    /\ pc' = "finally_api"
    /\ UNCHANGED <<temp_uid, table_panels, pi, errors, abort, raised,
                   pdf_path, emails, delete_calls, csvVars>>
    /\ UNCHANGED apiFixed

\* Lines 466-468 with delete_dashboard (155-161): the delete request is
\* answered with 200 or with another status, or requests.delete raises and
\* the exception leaves process_report.
ApiFinally ==
    /\ pc = "finally_api"
    /\ IF temp_uid # <<>>
       THEN /\ delete_calls' = delete_calls + 1
            /\ \/ UNCHANGED <<errors, raised>>
               \/ /\ errors' = errors \cup
                                  {Logged("warning", "delete_dashboard",
                                          0, 0, 0)}
                  /\ UNCHANGED raised
               \/ /\ raised' = "RequestException"
                  /\ UNCHANGED errors
       ELSE UNCHANGED <<delete_calls, errors, raised>>
    /\ pc' = "end"
    /\ UNCHANGED <<temp_uid, table_panels, pi, abort, pdf_path, emails,
                   csvVars>>
    /\ UNCHANGED apiFixed

InitApi ==
    /\ dashboard_url \in DashboardUrls
    /\ dashboard \in ApiDashboards
    /\ email_to \in {<<>>, Recipient}
    /\ pc = "api_start"
    /\ temp_uid = <<>> /\ table_panels = <<>> /\ pi = 0
    /\ errors = {} /\ abort = "" /\ raised = ""
    /\ pdf_path = <<>> /\ emails = <<>> /\ delete_calls = 0
    /\ CsvParked /\ PureParked
    /\ max_workers = 0 /\ grafana_vars = <<>> /\ ei = 0
    /\ expr_resolved = <<>> /\ metric_name = <<>> /\ futures = <<>>
    /\ backfill_cache = <<>> /\ engine_calls = EmptyBag /\ processed = {}
    /\ EngineParked /\ MergeParked /\ ChunkParked

NextApi ==
    \/ ApiClone
    \/ ApiGetPanels
    \/ ApiRenderPdf
    \/ ApiFetchBegin
    \/ ApiQuery
    \/ ApiEmail
    \/ ApiExcept
    \/ ApiFinally

SpecApi == InitApi /\ [][NextApi]_vars

\* C6: when a run has ended, no exception has left it, and if a temporary
\* dashboard was created, a delete of it was attempted, whichever step
\* failed.
C6_CleanupAfterFailure ==
    pc = "end" =>
        /\ raised = ""
        /\ temp_uid # <<>> => delete_calls >= 1

\* The part of C6 that holds in both programs: a run that created a
\* temporary dashboard ends only after one delete request for it.
DeleteAttemptedOnce ==
    pc = "end" => delete_calls = (IF temp_uid # <<>> THEN 1 ELSE 0)

---------------------------------------------------------------------------
(* The time window of a run: compute_range_from_env and                    *)
(* compute_prometheus_duration of prometheus_utils, for the TIME_FROM and  *)
(* TIME_TO_CSV of the environment and a reading of the UTC clock.          *)

\* Time expressions of the environment: plain offsets in every unit,
\* truncated ones, and some of no recognized form: an unknown unit, text
\* after the unit, a sign the pattern does not have, another word with a
\* suffix, and the empty string.
TimeExprs ==
    {<<"n", "o", "w">>, <<"n", "o", "w", "-", "0", "s">>, <<"n", "o", "w", "-", "9", "0", "s">>, <<"n", "o", "w", "-", "9", "0", "m">>, <<"n", "o", "w", "-", "6", "h">>, <<"n", "o", "w", "-", "1", "d">>,
     <<"n", "o", "w", "-", "2", "w">>, <<"n", "o", "w", "-", "1", "M">>, <<"n", "o", "w", "-", "1", "3", "M">>, <<"n", "o", "w", "/", "d">>, <<"n", "o", "w", "/", "w">>, <<"n", "o", "w", "/", "M">>,
     <<"n", "o", "w", "-", "1", "M", "/", "M">>, <<"n", "o", "w", "-", "1", "w", "/", "w">>, <<"n", "o", "w", "-", "1", "d", "/", "d">>, <<"n", "o", "w", "-", "1", "y">>, <<"n", "o", "w", "-", "6", "h", "o", "u", "r", "s">>,
     <<"n", "o", "w", "+", "1", "h">>, <<"t", "o", "d", "a", "y", "/", "d">>, <<>>}

\* Readings of datetime.utcnow(): the last day of a month longer than the
\* one before it, a leap day one second before midnight, the first second
\* of a year, and the night Europe/Amsterdam leaves summer time.
Clocks ==
    {DateTime(2026, 3, 31, 12, 30, 45), DateTime(2024, 2, 29, 23, 59, 59),
     DateTime(2026, 1, 1, 0, 0, 0), DateTime(2025, 10, 26, 3, 0, 0)}

NoTime == DateTime(0, 0, 0, 0, 0, 0)

NoAware ==
    [year |-> 0, month |-> 0, day |-> 0, hour |-> 0, minute |-> 0,
     second |-> 0, utcoffset |-> 0]

\* report.py line 41: start_dt, end_dt = compute_range_from_env(TIME_FROM,
\* TIME_TO_CSV).  The clock may advance between the two readings.
TimeComputeRange ==
    /\ tpc = "env"
    /\ \E tick \in {0, 1} :
         LET now_1 == utcnow
             now_2 == AddSeconds(utcnow, tick)
         IN /\ nows' = <<now_1, now_2>>
            /\ parsed' = <<ParseGrafanaTime(time_from, now_1),
                           ParseGrafanaTime(time_to, now_2)>>
            /\ trange' = ComputeRangeFromEnv(time_from, time_to, now_1, now_2)
            /\ utcnow' = now_2
    /\ tpc' = "range"
    /\ UNCHANGED <<time_from, time_to, duration>>
    /\ UNCHANGED notTime

\* prometheus_utils.py line 82: compute_prometheus_duration(start, end) for
\* the window of the run.
TimeDuration ==
    /\ tpc = "range"
    /\ duration' = PrometheusDuration(Instant(trange[2]) - Instant(trange[1]))
    /\ tpc' = "done"
    /\ UNCHANGED <<time_from, time_to, utcnow, nows, parsed, trange>>
    /\ UNCHANGED notTime

InitTime ==
    /\ time_from \in TimeExprs
    /\ time_to \in TimeExprs
    /\ utcnow \in Clocks
    /\ nows = <<NoTime, NoTime>>
    /\ parsed = <<NoTime, NoTime>>
    /\ trange = <<NoAware, NoAware>>
    /\ duration = <<>>
    /\ tpc = "env"
    /\ EngineParked /\ MergeParked /\ ChunkParked /\ RunParked /\ CsvParked
    /\ FnParked

NextTime ==
    \/ TimeComputeRange
    \/ TimeDuration

SpecTime == InitTime /\ [][NextTime]_vars

---------------------------------------------------------------------------
(* Properties of the time window.                                          *)

\* C12: the window compute_range_from_env resolves from the configured
\* pair of relative time expressions satisfies start <= end.
C12_WindowStartBeforeEnd ==
    tpc # "env" => Instant(trange[1]) <= Instant(trange[2])

\* The expression is now-<N><unit> and nothing more.
PlainRelative(time_str) ==
    RelativeMatch(time_str).found /\ RelativeMatch(time_str).end = Len(time_str)

\* The length of N units of fixed length, in seconds.
SecondsOfUnits(n, unit) ==
    CASE unit = "s" -> n
      [] unit = "m" -> n * 60
      [] unit = "h" -> n * 60 * 60
      [] unit = "d" -> n * 24 * 60 * 60
      [] unit = "w" -> n * 7 * 24 * 60 * 60

\* dt lies exactly n units before now: by the length of the units, or for
\* months n calendar months back at the same time of day, on the same day
\* of the month or on the last day of a shorter month.
ExactlyBefore(dt, now, n, unit) ==
    IF unit = "M"
    THEN /\ (now.year * 12 + now.month) - (dt.year * 12 + dt.month) = n
         /\ dt.day = Min(now.day, DaysInMonth(dt.year, dt.month))
         /\ <<dt.hour, dt.minute, dt.second>>
               = <<now.hour, now.minute, now.second>>
    ELSE WallSeconds(now) - WallSeconds(dt) = SecondsOfUnits(n, unit)

\* C13: an expression now-<N><unit> without a truncation suffix resolves to
\* the timestamp exactly N units before the clock reading "now" resolves
\* to, and never to one later than it.
C13_RelativeTimeExact ==
    \A i \in {1, 2} :
        LET time_str == <<time_from, time_to>>[i]
            m == RelativeMatch(time_str)
        IN (tpc # "env" /\ PlainRelative(time_str))
              => /\ ExactlyBefore(parsed[i], nows[i], m.value, m.unit)
                 /\ WallSeconds(parsed[i]) <= WallSeconds(nows[i])

\* A month offset from the 31st resolved to the last day of a shorter
\* month.
C13_Witness ==
    /\ tpc # "env"
    /\ PlainRelative(time_from)
    /\ RelativeMatch(time_from).unit = "M"
    /\ RelativeMatch(time_from).value > 0
    /\ parsed[1].day < nows[1].day

\* C14: the formatted duration between the two timestamps of the window is
\* "<H>h" with H the floor of their distance in seconds divided by 3600,
\* whatever the sign of the distance.
C14_DurationIsFloorOfHours ==
    tpc = "done"
        => duration = IntString((Instant(trange[2]) - Instant(trange[1]))
                                    \div 3600) \o <<"h">>

\* For a window that does not end before it starts the duration is the
\* floor of the hours.
DurationIsFloorForForwardWindow ==
    (tpc = "done" /\ Instant(trange[1]) <= Instant(trange[2]))
        => duration = IntString((Instant(trange[2]) - Instant(trange[1]))
                                    \div 3600) \o <<"h">>

---------------------------------------------------------------------------
(* The pure functions of prometheus_utils and of the backfill engine, each *)
(* applied once to arguments drawn from the sets below.                    *)

FnCall(fn, args) == [fn |-> fn, args |-> args]

\* Query templates: without placeholders, with a "$" that starts no
\* placeholder, with $name, ${name} and $__range, and with two variables.
Templates ==
    {<<"u", "p">>, <<"a", "{", "x", "=", "~", "\"", "b", "$", "\"", "}">>, <<"a", "{", "p", "=", "\"", "$", "p", "\"", "}">>, <<"a", "{", "p", "=", "~", "\"", "$", "{", "p", "}", "\"", "}", "[", "$", "_", "_", "r", "a", "n", "g", "e", "]">>,
     <<"a", "{", "$", "p", ",", "$", "q", "}">>, <<"$", "p", "r", "o", "j", "e", "c", "t", "{", "$", "p", "}">>}

var_p == <<"p">>
var_q == <<"q">>
var_project == <<"p", "r", "o", "j", "e", "c", "t">>
plain_value == <<"v">>

Binding(name, value) == [name |-> name, value |-> value]

\* Variable mappings, as the items of the dict in order: empty, one
\* variable with each of the three wildcard values and with a plain value,
\* two variables of which one is a wildcard and of which one name starts
\* the other, in both orders, and a variable whose value is the
\* placeholder of the next.
VariableMappings ==
    {<<>>,
     <<Binding(var_p, <<>>)>>,
     <<Binding(var_p, AllSentinel)>>,
     <<Binding(var_p, AllListSentinel)>>,
     <<Binding(var_p, plain_value)>>,
     <<Binding(var_p, plain_value), Binding(var_q, AllSentinel)>>,
     <<Binding(var_p, AllSentinel), Binding(var_project, plain_value)>>,
     <<Binding(var_p, plain_value), Binding(var_project, AllSentinel)>>,
     <<Binding(var_project, AllSentinel), Binding(var_p, plain_value)>>,
     <<Binding(var_p, <<"$", "q">>), Binding(var_q, plain_value)>>}

\* Windows in whole hours.
FnWindows == {<<0, 30>>}

ResolveCalls ==
    {FnCall("resolve_grafana_vars",
            [query |-> q, variables |-> vs, start |-> w[1], end |-> w[2]]) :
        q \in Templates, vs \in VariableMappings, w \in FnWindows}

\* resolve_grafana_vars(query, variables, start, end)
ApplyResolveGrafanaVars ==
    /\ fpc = "call"
    /\ fn_call.fn = "resolve_grafana_vars"
    /\ fn_result' = ResolveGrafanaVars(fn_call.args.query,
                                       fn_call.args.variables,
                                       fn_call.args.start, fn_call.args.end)
    /\ fpc' = "done"
    /\ UNCHANGED fn_call
    /\ UNCHANGED notFn

rule_cpu == <<"c", "p", "u">>
rule_cpu_total == <<"c", "p", "u", "_", "t", "o", "t", "a", "l">>

\* The rule mapping in which the rule record_name has the expression expr:
\* the rule cpu alone, or the rule cpu = raw and the rule cpu_total.
ScanRules(record_name, expr) ==
    IF record_name = rule_cpu THEN <<Rule(rule_cpu, expr)>>
    ELSE <<Rule(rule_cpu, <<"r", "a", "w">>), Rule(record_name, expr)>>

\* Expressions in which the name cpu occurs as a complete identifier, as
\* a prefix or a part of a longer one, twice, or not at all.
ScanExprs ==
    {<<"c", "p", "u">>, <<"c", "p", "u", "_", "t", "o", "t", "a", "l">>, <<"s", "u", "m", "(", "c", "p", "u", ")">>, <<"s", "u", "m", "(", "c", "p", "u", "_", "t", "o", "t", "a", "l", ")", " ", "/", " ", "c", "p", "u">>,
     <<"c", "p", "u", ":", "t", "o", "t", "a", "l">>, <<"n", "o", "d", "e", ":", "c", "p", "u">>, <<"m", "y", "_", "c", "p", "u">>, <<"c", "p", "u", " ", "+", " ", "c", "p", "u">>, <<"c", "p", "u", " ", "/", " ", "2">>,
     <<"r", "a", "w">>}

ScanCalls ==
    {FnCall("dependency_scans",
            [rules |-> ScanRules(n, e), expr |-> e, record_name |-> n]) :
        e \in ScanExprs, n \in {rule_cpu, rule_cpu_total}}

\* The two dependency scans of the engine for one expression: line 57
\* (_find_dependencies) and lines 124-125 (dependency_rules).
ApplyDependencyScans ==
    /\ fpc = "call"
    /\ fn_call.fn = "dependency_scans"
    /\ fn_result' =
          [deps |-> FindDependencies(fn_call.args.rules, fn_call.args.expr),
           dependency_rules |->
               DependencyRules(fn_call.args.rules, fn_call.args.expr,
                               fn_call.args.record_name)]
    /\ fpc' = "done"
    /\ UNCHANGED fn_call
    /\ UNCHANGED notFn

\* Expressions for extract_metric: the metric inside two functions with a
\* range selector, with a label selector, with both, bare, and only
\* functions.
MetricExprs ==
    {<<"s", "u", "m", "(", "r", "a", "t", "e", "(", "r", "u", "n", "a", "i", "_", "u", "s", "e", "d", "_", "c", "p", "u", "_", "c", "o", "r", "e", "s", "_", "p", "e", "r", "_", "p", "o", "d", "[", "5", "m", "]", ")", ")">>,
     <<"s", "u", "m", "(", "r", "a", "t", "e", "(", "r", "u", "n", "a", "i", "_", "u", "s", "e", "d", "_", "c", "p", "u", "_", "c", "o", "r", "e", "s", "_", "p", "e", "r", "_", "p", "o", "d", "{", "p", "=", "\"", "a", "\"", "}", "[", "5", "m", "]", ")", ")">>,
     <<"r", "u", "n", "a", "i", "_", "u", "s", "e", "d", "_", "c", "p", "u", "_", "c", "o", "r", "e", "s", "_", "p", "e", "r", "_", "p", "o", "d", "{", "p", "=", "\"", "a", "\"", "}">>,
     <<"a", "v", "g", "(", "g", "p", "u", "_", "u", "t", "i", "l", " ", "{", "p", "=", "\"", "a", "\"", "}", ")">>,
     <<"m", "a", "x", "(", "g", "p", "u", "_", "u", "t", "i", "l", ")">>,
     <<"u", "p">>,
     <<"s", "u", "m", "(", "r", "a", "t", "e", "(", ")", ")">>,
     <<>>}

MetricCalls == {FnCall("extract_metric", [expr |-> e]) : e \in MetricExprs}

\* extract_metric(expr)
ApplyExtractMetric ==
    /\ fpc = "call"
    /\ fn_call.fn = "extract_metric"
    /\ fn_result' = ExtractMetric(fn_call.args.expr)
    /\ fpc' = "done"
    /\ UNCHANGED fn_call
    /\ UNCHANGED notFn

\* dict.get(key, default)
Get(d, key, default) == IF key \in DOMAIN d THEN d[key] ELSE default

RECURSIVE ConcatAll(_)
ConcatAll(seqs) ==
    IF seqs = <<>> THEN <<>> ELSE Head(seqs) \o ConcatAll(Tail(seqs))

\* The rules of the groups of one mapping, in order (lines 30-31).
GroupRules(holder) ==
    LET groups == Get(holder, "groups", <<>>)
    IN ConcatAll([g \in DOMAIN groups |-> Get(groups[g], "rules", <<>>)])

\* self.rules_map[record] = expr: a new key is appended, an old one keeps
\* its place.
DictSet(rules, record, expr) ==
    IF HasRule(rules, record)
    THEN [i \in DOMAIN rules |->
             IF rules[i].record = record THEN Rule(record, expr)
             ELSE rules[i]]
    ELSE Append(rules, Rule(record, expr))

\* Lines 31-33 over the rules in document order.
RECURSIVE StoreRules(_, _)
StoreRules(rules, rs) ==
    IF rs = <<>> THEN rules
    ELSE LET rule == Head(rs)
         IN StoreRules(IF "record" \in DOMAIN rule /\ "expr" \in DOMAIN rule
                       THEN DictSet(rules, rule.record, rule.expr)
                       ELSE rules,
                       Tail(rs))

\* RecordingRuleBackfill.__init__, lines 26-33, for the document `data`
\* that yaml.safe_load returned.
LoadRules(data) ==
    LET items == Get(data, "items", <<>>)
    IN StoreRules(<<>>,
          ConcatAll([i \in DOMAIN items |->
                        GroupRules(Get(items[i], "spec", <<>>))]))

\* Rules of a document: two recording rules, a third that records rule_a
\* again, and an alerting rule, which has no record.
RuleA1 == Rule(rule_a, <<"b", " ", "/", " ", "2">>)
RuleB == Rule(rule_b, raw_r)
RuleA2 == Rule(rule_a, <<"b", " ", "/", " ", "4">>)
AlertRule == [alert |-> <<"G", "p", "u", "I", "d", "l", "e">>, expr |-> <<"b", " ", "<", " ", "1">>]

Group(rules) == [name |-> <<"g">>, rules |-> rules]

\* The lists of groups of a document.
GroupLists ==
    {<<>>,
     <<Group(<<RuleA1, RuleB>>)>>,
     <<Group(<<RuleA1, AlertRule>>), Group(<<RuleB, RuleA2>>)>>}

\* Rule documents of both shapes: groups at the top level, and groups
\* under items[].spec.
RuleDocuments ==
    {[groups |-> gs] : gs \in GroupLists}
    \cup {[items |-> <<[spec |-> [groups |-> gs]]>>] : gs \in GroupLists}
    \cup {[items |-> <<[spec |-> [groups |-> <<Group(<<RuleA1>>)>>]],
                       [spec |-> [groups |-> <<Group(<<RuleA2, RuleB>>)>>]]>>]}

LoadCalls == {FnCall("load_rules", [data |-> d]) : d \in RuleDocuments}

\* RecordingRuleBackfill(yaml_path)
ApplyLoadRules ==
    /\ fpc = "call"
    /\ fn_call.fn = "load_rules"
    /\ fn_result' = LoadRules(fn_call.args.data)
    /\ fpc' = "done"
    /\ UNCHANGED fn_call
    /\ UNCHANGED notFn

\* Results of a range query: no series; two labelled series, one with two
\* samples; a series without labels; a series without samples; a series
\* with the project label only beside one without samples; two series
\* with the same labels and last sample.
ProjectionResults ==
    {<<>>,
     RawSeries,
     <<Series(<<>>, <<<<1, Float(3600)>>>>)>>,
     <<Series(Labels(p1, d1), <<>>)>>,
     <<Series("project" :> p1, <<<<0, Float(1)>>, <<1, Float(2)>>>>),
       Series(Labels(p2, d2), <<>>)>>,
     <<Series(Labels(p1, d1), <<<<1, Float(5)>>>>),
       Series(Labels(p1, d1), <<<<0, Float(4)>>, <<1, Float(5)>>>>)>>}

ProjectionCalls ==
    {FnCall("_prometheus_result_to_df",
            [results |-> [type |-> "dict", result |-> r],
             column_name |-> c]) :
        r \in ProjectionResults, c \in {gpu_hours, raw_gpu_seconds}}

\* _prometheus_result_to_df(results, column_name)
ApplyPrometheusResultToDf ==
    /\ fpc = "call"
    /\ fn_call.fn = "_prometheus_result_to_df"
    /\ fn_result' = PrometheusResultToDf(fn_call.args.results,
                                         fn_call.args.column_name)
    /\ fpc' = "done"
    /\ UNCHANGED fn_call
    /\ UNCHANGED notFn

\* Every function is applied once to one of its argument tuples.
InitFn ==
    /\ fn_call \in ResolveCalls \cup ScanCalls \cup MetricCalls \cup LoadCalls \cup ProjectionCalls
    /\ fn_result = <<>>
    /\ fpc = "call"
    /\ EngineParked /\ MergeParked /\ ChunkParked /\ RunParked /\ CsvParked
    /\ TimeParked

NextFn ==
    \/ ApplyResolveGrafanaVars
    \/ ApplyDependencyScans
    \/ ApplyExtractMetric
    \/ ApplyLoadRules
    \/ ApplyPrometheusResultToDf

SpecFn == InitFn /\ [][NextFn]_vars

---------------------------------------------------------------------------
(* Properties of the pure functions.                                       *)

Returned(fn) == fpc = "done" /\ fn_call.fn = fn

\* The characters that can follow "$" in a placeholder: $name, ${name},
\* $__range.
PlaceholderStart == Lowers \cup Uppers \cup {"_", "{"}

\* The expression contains no placeholder.
NoPlaceholders(query) ==
    \A i \in DOMAIN query :
        query[i] = "$" =>
            (i = Len(query) \/ query[i + 1] \notin PlaceholderStart)

IsWildcardValue(value) ==
    value = <<>> \/ value = AllSentinel \/ value = AllListSentinel

\* C15: substituting any variable mapping into an expression without
\* placeholders returns the expression unchanged; and after substituting a
\* mapping with a variable whose value is empty or the match-all sentinel
\* into an expression free of the literal $__all, the output contains no
\* $__all and no placeholder of that variable.
C15_SubstitutionWildcardSafe ==
    Returned("resolve_grafana_vars") =>
        LET query     == fn_call.args.query
            variables == fn_call.args.variables
        IN /\ NoPlaceholders(query) => fn_result = query
           /\ \A i \in DOMAIN variables :
                 (/\ IsWildcardValue(variables[i].value)
                  /\ ~IsSubstring(AllSentinel, query))
                    => /\ ~IsSubstring(AllSentinel, fn_result)
                       /\ ~IsSubstring(<<"$">> \o variables[i].name,
                                       fn_result)
                       /\ ~IsSubstring(<<"$", "{">> \o variables[i].name
                                          \o <<"}">>, fn_result)

\* The placeholder of a variable bound to $__all has become .*
C15_Witness ==
    /\ Returned("resolve_grafana_vars")
    /\ fn_call.args.query = <<"a", "{", "p", "=", "\"", "$", "p", "\"", "}">>
    /\ fn_call.args.variables = <<Binding(var_p, AllSentinel)>>
    /\ fn_result = <<"a", "{", "p", "=", "\"", ".", "*", "\"", "}">>

\* The characters of a metric identifier of the query language.
IdentifierChars == Lowers \cup Uppers \cup Digits \cup {"_", ":"}

\* name occurs in expr as a complete identifier: no identifier character
\* stands directly before or after the occurrence.
CompleteIdentifier(name, expr) ==
    \E i \in DOMAIN expr :
        /\ OccursAt(name, expr, i)
        /\ (i = 1 \/ expr[i - 1] \notin IdentifierChars)
        /\ (i + Len(name) > Len(expr)
               \/ expr[i + Len(name)] \notin IdentifierChars)

\* C16: a dependency scan reports a rule name only when the name occurs in
\* the expression as a complete metric identifier, and the two scans of
\* the engine report the same set of rules for the same expression.
C16_DependenciesExactWord ==
    Returned("dependency_scans") =>
        /\ \A name \in Range(fn_result.deps) \cup
                       Range(fn_result.dependency_rules) :
               CompleteIdentifier(name, fn_call.args.expr)
        /\ Range(fn_result.deps) = Range(fn_result.dependency_rules)

\* The example of C16: a rule named cpu is not reported for an expression
\* that contains only cpu_total.
CpuIsNoDependencyOfCpuTotal ==
    (Returned("dependency_scans") /\ fn_call.args.expr = rule_cpu_total)
        => /\ rule_cpu \notin Range(fn_result.deps)
           /\ rule_cpu \notin Range(fn_result.dependency_rules)

\* The token scan of backfill_rule_recursive reports complete identifiers
\* only.
TokenScanIsExactWord ==
    Returned("dependency_scans") =>
        \A name \in Range(fn_result.dependency_rules) :
            CompleteIdentifier(name, fn_call.args.expr)

\* The identifiers of an expression, left to right: the maximal runs of
\* identifier characters that start with a letter, "_" or ":".
RECURSIVE IdentifiersFrom(_, _)
IdentifiersFrom(s, i) ==
    IF i > Len(s) THEN <<>>
    ELSE IF s[i] \notin IdentifierChars THEN IdentifiersFrom(s, i + 1)
    ELSE LET e == RunEnd(s, i, IdentifierChars)
         IN (IF s[i] \in Digits THEN <<>> ELSE <<Slice(s, i, e)>>)
            \o IdentifiersFrom(s, e + 1)

\* The title-cased first identifier that is not a function name, without
\* its trailing _per_<unit>.
FirstMetricTitle(expr) ==
    LET named == SelectSeq(IdentifiersFrom(expr, 1),
                           LAMBDA t : t \notin PromqlFunctions)
    IN IF named = <<>> THEN UnknownMetric
       ELSE Title(Replace(StripPerSuffix(named[1]), <<"_">>, <<" ">>))

\* C17: extract_metric returns the title-cased first identifier of the
\* expression that is not an aggregation or range function, with a
\* trailing _per_<unit> stripped; for
\* sum(rate(runai_used_cpu_cores_per_pod[5m])) it returns
\* "Runai Used Cpu Cores".
C17_ExtractMetricTitle ==
    Returned("extract_metric") =>
        /\ fn_result = FirstMetricTitle(fn_call.args.expr)
        /\ fn_call.args.expr = <<"s", "u", "m", "(", "r", "a", "t", "e", "(", "r", "u", "n", "a", "i", "_", "u", "s", "e", "d", "_", "c", "p", "u", "_", "c", "o", "r", "e", "s", "_", "p", "e", "r", "_", "p", "o", "d", "[", "5", "m", "]", ")", ")">>
              => fn_result = RunaiUsedCpuCores

\* A metric that is directly followed by a label selector is extracted as
\* C17 says.
SelectedMetricIsExtracted ==
    (/\ Returned("extract_metric")
     /\ fn_call.args.expr \in
           {<<"s", "u", "m", "(", "r", "a", "t", "e", "(", "r", "u", "n", "a", "i", "_", "u", "s", "e", "d", "_", "c", "p", "u", "_", "c", "o", "r", "e", "s", "_", "p", "e", "r", "_", "p", "o", "d", "{", "p", "=", "\"", "a", "\"", "}", "[", "5", "m", "]", ")", ")">>,
            <<"r", "u", "n", "a", "i", "_", "u", "s", "e", "d", "_", "c", "p", "u", "_", "c", "o", "r", "e", "s", "_", "p", "e", "r", "_", "p", "o", "d", "{", "p", "=", "\"", "a", "\"", "}">>})
        => fn_result = RunaiUsedCpuCores

\* The rules of a document of either shape that have a record and an
\* expression, in document order.
RecordingRules(data) ==
    LET items == Get(data, "items", <<>>)
        all   == GroupRules(data)
                 \o ConcatAll([i \in DOMAIN items |->
                                  GroupRules(items[i].spec)])
    IN SelectSeq(all, LAMBDA rule :
                     "record" \in DOMAIN rule /\ "expr" \in DOMAIN rule)

\* record -> expr of the last rule of rs with that record.
LastWins(rs) ==
    [name \in {rs[i].record : i \in DOMAIN rs} |->
        rs[CHOOSE i \in DOMAIN rs :
              /\ rs[i].record = name
              /\ \A k \in DOMAIN rs : rs[k].record = name => k <= i].expr]

\* A loaded rule mapping as a function record -> expr.
AsMapping(rules) ==
    [name \in Range(RuleNames(rules)) |-> ExprOf(rules, name)]

\* C18: for a rule document of either shape, top-level groups[].rules[] or
\* items[].spec.groups[].rules[], the loaded mapping holds exactly the
\* record -> expr pairs of the rules that have both fields, a later
\* duplicate overwriting an earlier one.
C18_LoadsEitherShape ==
    Returned("load_rules") =>
        AsMapping(fn_result) = LastWins(RecordingRules(fn_call.args.data))

\* The same for the documents nested under items[].spec alone.
NestedDocumentIsLoaded ==
    (Returned("load_rules") /\ "items" \in DOMAIN fn_call.args.data)
        => AsMapping(fn_result) = LastWins(RecordingRules(fn_call.args.data))

\* The row C19 states for a series with samples.
ProjectedRow(series, column_name) ==
    [project |-> IF "project" \in DOMAIN series.metric
                 THEN series.metric["project"] ELSE Unknown,
     department |-> IF "department" \in DOMAIN series.metric
                    THEN series.metric["department"] ELSE Unknown,
     vals |-> column_name :> series.values[Len(series.values)][2]]

\* C19: the projection emits exactly one row per series with at least one
\* sample, with the series' project and department labels ("unknown" when
\* absent) and its last sample as the value; when no series has a sample
\* it emits exactly the one row {unknown, unknown, column: 0}; the table is
\* never empty.
C19_ProjectionRows ==
    Returned("_prometheus_result_to_df") =>
        LET result      == fn_call.args.results.result
            column_name == fn_call.args.column_name
            sampled     == {i \in DOMAIN result : result[i].values # <<>>}
            rows        == fn_result.rows
        IN /\ fn_result.columns = <<column_name>>
           /\ BagCardinality(rows) >= 1
           /\ IF sampled = {}
              THEN rows = SetToBag({[project |-> Unknown,
                                     department |-> Unknown,
                                     vals |-> column_name :> Zero]})
              ELSE /\ BagCardinality(rows) = Cardinality(sampled)
                   /\ \A i \in sampled :
                         LET row == ProjectedRow(result[i], column_name)
                         IN CopiesIn(row, rows) =
                               Cardinality({k \in sampled :
                                   ProjectedRow(result[k], column_name) = row})

\* A series with the project label only and two samples, beside a series
\* without samples, gave one row with department "unknown".
C19_Witness ==
    /\ Returned("_prometheus_result_to_df")
    /\ Len(fn_call.args.results.result) = 2
    /\ fn_call.args.results.result[2].values = <<>>
    /\ fn_result.rows =
          SetToBag({[project |-> p1, department |-> Unknown,
                     vals |-> fn_call.args.column_name :> Float(2)]})

---------------------------------------------------------------------------
(* Properties of parse_grafana_time.                                       *)

TruncationSuffixes == {<<"/", "M">>, <<"/", "d">>, <<"/", "w">>}

HasSuffix(time_str) == \E sfx \in TruncationSuffixes : EndsWith(time_str, sfx)

\* The expression without its truncation suffix.
BaseOf(time_str) ==
    IF HasSuffix(time_str) THEN Slice(time_str, 1, Len(time_str) - 2)
    ELSE time_str

\* now or now-<N><unit>, each with an optional /M, /d or /w.
Recognized(time_str) ==
    BaseOf(time_str) = <<"n", "o", "w">> \/ PlainRelative(BaseOf(time_str))

TimeExprOf(i) == <<time_from, time_to>>[i]

\* C21: a time expression that is not of a recognized form resolves to
\* exactly the timestamp "now" resolves to.
C21_UnrecognizedIsNow ==
    \A i \in {1, 2} :
        (tpc # "env" /\ ~Recognized(TimeExprOf(i))) => parsed[i] = nows[i]

\* An expression that the pattern of line 14 does not match at all and
\* that has no suffix resolves to now.
UnmatchedWithoutSuffixIsNow ==
    \A i \in {1, 2} :
        (/\ tpc # "env"
         /\ ~RelativeMatch(TimeExprOf(i)).found
         /\ ~HasSuffix(TimeExprOf(i)))
            => parsed[i] = nows[i]

\* What the expression resolves to before its suffix is applied.
Untruncated(i) ==
    LET m == RelativeMatch(BaseOf(TimeExprOf(i)))
    IN IF m.found THEN RelativeDelta(nows[i], m.value, m.unit) ELSE nows[i]

SameDate(a, b) == <<a.year, a.month, a.day>> = <<b.year, b.month, b.day>>

AtMidnight(dt) == <<dt.hour, dt.minute, dt.second>> = <<0, 0, 0>>

\* dt is the start of the calendar period of `suffix` that contains u.
PeriodStart(dt, u, suffix) ==
    /\ AtMidnight(dt)
    /\ CASE suffix = <<"/", "M">> ->
               /\ <<dt.year, dt.month>> = <<u.year, u.month>>
               /\ dt.day = 1
         [] suffix = <<"/", "d">> -> SameDate(dt, u)
         [] suffix = <<"/", "w">> ->
               /\ Weekday(dt) = 0
               /\ WallSeconds(u) - WallSeconds(dt) < 7 * SecondsPerDay

\* C22: a recognized expression that ends in /M, /d or /w resolves to the
\* start of the calendar period that contains the untruncated timestamp:
\* the first of the month, the day, or the most recent Monday, at
\* 00:00:00.  It is never later than the untruncated timestamp, and
\* truncating it again changes nothing.
C22_TruncationIsPeriodStart ==
    \A i \in {1, 2} : \A sfx \in TruncationSuffixes :
        (/\ tpc # "env"
         /\ Recognized(TimeExprOf(i))
         /\ EndsWith(TimeExprOf(i), sfx))
            => /\ PeriodStart(parsed[i], Untruncated(i), sfx)
               /\ WallSeconds(parsed[i]) <= WallSeconds(Untruncated(i))
               /\ Truncate(TimeExprOf(i), parsed[i]) = parsed[i]

\* A week offset from a Thursday was snapped to the Monday before.
C22_Witness ==
    /\ tpc # "env"
    /\ time_from = <<"n", "o", "w", "-", "1", "w", "/", "w">>
    /\ Weekday(Untruncated(1)) = 3
    /\ Weekday(parsed[1]) = 0
    /\ parsed[1] # Untruncated(1)

---------------------------------------------------------------------------
(* Substitution of whole placeholders.                                     *)

\* The first index at or after i of s that holds no word character, or
\* Len(s) + 1.
RECURSIVE NameEnd(_, _)
NameEnd(s, i) ==
    IF i > Len(s) \/ ~IsWordChar(s[i]) THEN i ELSE NameEnd(s, i + 1)

\* The first index at or after i of s that holds "}", or Len(s) + 1.
RECURSIVE BraceEnd(_, _)
BraceEnd(s, i) ==
    IF i > Len(s) \/ s[i] = "}" THEN i ELSE BraceEnd(s, i + 1)

IsBound(variables, name) == \E k \in DOMAIN variables : variables[k].name = name

\* What a placeholder of the variable name stands for: the value bound to
\* the name, or .* for an empty or match-all value.
BoundValue(variables, name) ==
    LET k == CHOOSE k \in DOMAIN variables : variables[k].name = name
    IN IF IsWildcardValue(variables[k].value) THEN Wildcard
       ELSE variables[k].value

\* The query from index i on, with each placeholder $name or ${name} of a
\* bound variable replaced by what it stands for, in one pass from left to
\* right: a placeholder's name is the whole identifier after the "$", and
\* replaced text is not read again.
RECURSIVE PlaceholdersReplaced(_, _, _)
PlaceholdersReplaced(query, variables, i) ==
    IF i > Len(query) THEN <<>>
    ELSE IF query[i] # "$"
    THEN <<query[i]>> \o PlaceholdersReplaced(query, variables, i + 1)
    ELSE LET braced == i < Len(query) /\ query[i + 1] = "{"
             stop   == IF braced THEN BraceEnd(query, i + 2)
                       ELSE NameEnd(query, i + 1)
             name   == IF braced THEN Slice(query, i + 2, stop - 1)
                       ELSE Slice(query, i + 1, stop - 1)
             next   == IF braced THEN stop + 1 ELSE stop
         IN IF (braced => stop <= Len(query)) /\ IsBound(variables, name)
            THEN BoundValue(variables, name)
                     \o PlaceholdersReplaced(query, variables, next)
            ELSE <<"$">> \o PlaceholdersReplaced(query, variables, i + 1)

ReverseSeq(s) == [i \in 1..Len(s) |-> s[Len(s) + 1 - i]]

\* C23: in the output every placeholder of a bound variable has been
\* replaced by the value bound to exactly that name (.* for an empty or
\* match-all value) and nothing else has changed, replaced text included;
\* $__range is replaced by the duration after that; and the output is the
\* same when the variables are iterated in the opposite order.
C23_SubstitutionExact ==
    Returned("resolve_grafana_vars") =>
        LET query     == fn_call.args.query
            variables == fn_call.args.variables
            start     == fn_call.args.start
            end       == fn_call.args.end
        IN /\ fn_result =
                  Replace(PlaceholdersReplaced(query, variables, 1),
                          RangeToken, ComputePrometheusDuration(start, end))
           /\ fn_result =
                  ResolveGrafanaVars(query, ReverseSeq(variables), start, end)

\* $__range is replaced after the variables: no $__range is left in the
\* output when no variable's value holds one.
RangeReplacedLast ==
    Returned("resolve_grafana_vars") =>
        ~IsSubstring(RangeToken, fn_result)

\* When no variable name is the start of another placeholder's name, and
\* no value holds a "$", every placeholder is replaced by its own value.
ExactForUnambiguousNames ==
    Returned("resolve_grafana_vars") =>
        LET query     == fn_call.args.query
            variables == fn_call.args.variables
        IN (/\ \A k \in DOMAIN variables :
                  /\ ~IsSubstring(<<"$">>, variables[k].value)
                       \/ IsWildcardValue(variables[k].value)
                  /\ \A i \in DOMAIN query :
                        OccursAt(<<"$">> \o variables[k].name, query, i)
                            => NameEnd(query, i + 1)
                                   = i + 1 + Len(variables[k].name))
            => fn_result =
                  Replace(PlaceholdersReplaced(query, variables, 1),
                          RangeToken,
                          ComputePrometheusDuration(fn_call.args.start,
                                                    fn_call.args.end))

---------------------------------------------------------------------------
(* The backfill cache under the chunk workers of a run.                    *)

\* The chunk tasks of the expression in work that fell back to a rule.
FellBack == {i \in DOMAIN futures : futures[i].key # NoKey}

\* The chunk tasks of one expression fall back on pairwise distinct keys.
WorkerKeysDistinct ==
    \A i, j \in FellBack : i # j => futures[i].key # futures[j].key

FallbackAlwaysCaught ==
    \A i \in FellBack :
        futures[i].st = "done"
           => /\ futures[i].failed = "backfill_rule_recursive"
              /\ futures[i].key \notin DOMAIN backfill_cache

---------------------------------------------------------------------------
(* The derivation of a rule from its first dependency.                     *)

\* The value the innermost call has returned in this step: to its caller,
\* which stores it under the rule's name (line 68), or as the outcome.
ReturnedValue ==
    IF Len(stack) = 1 THEN outcome'.value
    ELSE stack'[Len(stack')].dep_dfs[Top.rule]

\* The step is the return of the innermost call.
Returns ==
    IF Len(stack) = 1 THEN outcome'.kind = "return"
    ELSE Len(stack') = Len(stack) - 1

\* The rows of the dependency's table, each with the dependency's value
\* moved to the column `rule_name` and, if the expression has a divisor,
\* divided by it.
DerivedRows(dep_df, dep, rule_name, expr) ==
    LET match == ScalarDivisor(expr)
    IN MapBag(dep_df.rows,
              [r \in DOMAIN dep_df.rows |->
                  Row(r.project, r.department,
                      rule_name :>
                         IF match.found
                         THEN FloatDiv(r.vals[dep],
                                       ParseFloat(match.text).value)
                         ELSE r.vals[dep])])

\* C25: when recompute_rule_for_timeframe returns the table of a rule whose
\* expression references other rules, the table has the group keys of the
\* first resolved dependency's table and one value column named after the
\* rule, and each value is the dependency's value, divided by the scalar
\* when the expression holds a "/ <number>".
C25_DerivedFromFirstDependency ==
    [][(/\ AtDerive
        /\ Top.fn = "recompute_rule_for_timeframe"
        /\ Returns)
          => LET dep    == Top.deps[1]
                 dep_df == Top.dep_dfs[dep]
             IN /\ ReturnedValue.type = "DataFrame"
                /\ ReturnedValue.columns = <<Top.rule>>
                /\ Keys(ReturnedValue) = Keys(dep_df)
                /\ ReturnedValue.rows =
                      DerivedRows(dep_df, dep, Top.rule,
                                  ExprOf(rules_map, Top.rule))]_vars

\* a = c + b / 4 has been resolved to the values of b, the first
\* dependency in the mapping's order, divided by 4.
C25_Witness ==
    /\ epc = "done"
    /\ rules_map = DocTwo
    /\ tsdb = StoreFull
    /\ call = [fn |-> "recompute_rule_for_timeframe", rule |-> rule_a]
    /\ outcome.kind = "return"
    /\ outcome.value.columns = <<rule_a>>
    /\ outcome.value.rows = ExpectedRows(tsdb[raw_r], rule_a, 4)

---------------------------------------------------------------------------
(* The retry loop of fetch_table_panel_csv.                                *)

\* The query request number a of the panel p was answered with 404 while
\* attempts remained.
NotReady(p, a) == Logged("warning", "not_ready", p, 0, a) \in errors

\* The fetch of the panel p ended in an HTTP error or another exception.
FetchFailed(p) ==
    \E a \in 1..DefaultRetries :
        \/ Logged("error", "http_error", p, 0, a) \in errors
        \/ Logged("error", "fetch_error", p, 0, a) \in errors

\* No panel has more than `retries` query requests, and every request
\* after a panel's first follows one that was answered with 404 while
\* attempts remained.
RetryBounded ==
    \A p \in DOMAIN posts :
        /\ posts[p] <= DefaultRetries
        /\ \A a \in 2..posts[p] : NotReady(p, a - 1) /\ a - 1 < DefaultRetries

\* A fetch that has returned, returned the CSV text or None, and None if
\* it failed.
FetchReturnsTextOrNone ==
    \A p \in DOMAIN fetched :
        /\ fetched[p] \in {"csv", "None"}
        /\ FetchFailed(p) => fetched[p] = "None"

\* A response other than a 404 with attempts left ends the fetch: the
\* function returns, and no request for the panel follows.
StopsAtFirstAnswer ==
    /\ (/\ pc = "api_post"
        /\ Logged("warning", "not_ready", pi, 0, attempt) \notin errors')
          => Len(fetched') = Len(fetched) + 1
    /\ \A p \in DOMAIN fetched : posts'[p] = posts[p]

\* C26: fetch_table_panel_csv issues at most `retries` (3) query requests
\* for a panel, a further one only after a request was answered with 404
\* while attempts remained; the first response of another kind ends the
\* fetch; and the fetch returns None, without raising, when the last
\* attempt fails or another error occurs.
C26_BoundedRetry ==
    /\ [](RetryBounded /\ FetchReturnsTextOrNone)
    /\ [][StopsAtFirstAnswer]_vars

\* Three requests for the first panel: two answered with 404, then the
\* failure of the last attempt, and None returned.
C26_Witness ==
    /\ Len(fetched) >= 1
    /\ posts[1] = DefaultRetries
    /\ NotReady(1, 1) /\ NotReady(1, 2)
    /\ Logged("error", "http_error", 1, 0, DefaultRetries) \in errors
    /\ fetched[1] = "None"

=============================================================================
